---- MODULE Spec2Model ----
(***************************************************************************)
(* A model of the summarization core of youtube-summarizer:                *)
(*   src/services/ai_summarizer.py  (AISummarizer)                         *)
(*   src/services/cache_manager.py  (CacheManager over a redis-py client)  *)
(*                                                                         *)
(* Representation of Python values                                         *)
(*   - a text (transcript, segment text, digest) is a record               *)
(*       [pad |-> k, runs |-> <<[w |-> word, n |-> count], ...>>]          *)
(*     k whitespace characters followed by the words of the runs in order, *)
(*     separated by single spaces; a run is n >= 1 copies of one word and  *)
(*     adjacent runs hold different words.  str.split() is the field runs, *)
(*     so a 63001-word transcript is one run and not 63001 elements.       *)
(*   - a timestamp string is a sequence of one-character strings.          *)
(*   - a call of a Python function that may raise is an operator whose     *)
(*     value is a record with a field exc ("none" or the exception class). *)
(***************************************************************************)
EXTENDS Integers, Sequences, FiniteSets, TLC

(***************************************************************************)
(* Program constants                                                       *)
(***************************************************************************)
WordsPerMinute == 150
ChunkingThreshold == 420
ChunkSize == 50000
FallbackWords == 300
ExcerptChars == 500
MinSegmentSeconds == 60
InitialPromptVersion == 5

(***************************************************************************)
(* Bounds of the model                                                     *)
(***************************************************************************)
MaxPromptVersion == 6
NumBodies == 2

(***************************************************************************)
(* Texts                                                                   *)
(***************************************************************************)
Run(w, n) == [w |-> w, n |-> n]
Text(pad, runs) == [pad |-> pad, runs |-> runs]
EmptyText == Text(0, <<>>)

RECURSIVE SumRuns(_)
SumRuns(rs) == IF rs = <<>> THEN 0 ELSE Head(rs).n + SumRuns(Tail(rs))

\* transcript.split(): the words, as runs
SplitWords(t) == t.runs

\* len(transcript.split())
WordCount(t) == SumRuns(SplitWords(t))

\* words[:k]
RECURSIVE TakeWords(_, _)
TakeWords(rs, k) ==
    IF k <= 0 \/ rs = <<>> THEN <<>>
    ELSE IF Head(rs).n <= k
         THEN <<Head(rs)>> \o TakeWords(Tail(rs), k - Head(rs).n)
         ELSE <<Run(Head(rs).w, k)>>

\* words[k:]
RECURSIVE DropWords(_, _)
DropWords(rs, k) ==
    IF k <= 0 \/ rs = <<>> THEN rs
    ELSE IF Head(rs).n <= k
         THEN DropWords(Tail(rs), k - Head(rs).n)
         ELSE <<Run(Head(rs).w, Head(rs).n - k)>> \o Tail(rs)

\* the words of a followed by the words of b
AppendRuns(a, b) ==
    IF a = <<>> THEN b
    ELSE IF b = <<>> THEN a
    ELSE IF a[Len(a)].w = Head(b).w
         THEN SubSeq(a, 1, Len(a) - 1)
                \o <<Run(Head(b).w, a[Len(a)].n + Head(b).n)>> \o Tail(b)
         ELSE a \o b

\* ' '.join(words)
JoinWords(rs) == Text(0, rs)

\* a check that only rejects the empty string
TranscriptIsEmpty(t) == t.pad = 0 /\ t.runs = <<>>

\* `not transcript or not transcript.strip()`
TranscriptIsBlank(t) == (t.pad = 0 /\ t.runs = <<>>) \/ t.runs = <<>>

(***************************************************************************)
(* Timestamps                                                              *)
(***************************************************************************)
Digits == {"0", "1", "2", "3", "4", "5", "6", "7", "8", "9"}

DigitVal(c) ==
    CASE c = "0" -> 0 [] c = "1" -> 1 [] c = "2" -> 2 [] c = "3" -> 3
      [] c = "4" -> 4 [] c = "5" -> 5 [] c = "6" -> 6 [] c = "7" -> 7
      [] c = "8" -> 8 [] c = "9" -> 9

\* str.lower() on the letters the model uses
LowerChar(c) ==
    CASE c = "E" -> "e" [] c = "N" -> "n" [] c = "D" -> "d" [] OTHER -> c

Lower(s) == [i \in 1..Len(s) |-> LowerChar(s[i])]

\* str.split(":")
RECURSIVE SplitColon(_, _)
SplitColon(s, cur) ==
    IF s = <<>> THEN <<cur>>
    ELSE IF Head(s) = ":" THEN <<cur>> \o SplitColon(Tail(s), <<>>)
    ELSE SplitColon(Tail(s), Append(cur, Head(s)))

RECURSIVE DigitsValue(_, _)
DigitsValue(s, acc) ==
    IF s = <<>> THEN acc ELSE DigitsValue(Tail(s), 10 * acc + DigitVal(Head(s)))

AllDigits(s) == s # <<>> /\ \A i \in 1..Len(s) : s[i] \in Digits

\* int(part): an optional sign and at least one decimal digit
ParseInt(s) ==
    IF AllDigits(s) THEN [exc |-> "none", val |-> DigitsValue(s, 0)]
    ELSE IF s # <<>> /\ Head(s) = "-" /\ AllDigits(Tail(s))
         THEN [exc |-> "none", val |-> 0 - DigitsValue(Tail(s), 0)]
    ELSE IF s # <<>> /\ Head(s) = "+" /\ AllDigits(Tail(s))
         THEN [exc |-> "none", val |-> DigitsValue(Tail(s), 0)]
    ELSE [exc |-> "ValueError", val |-> 0]

EndLiteral == <<"e", "n", "d">>

\* lines 480-484: the MM:SS branch
ParseMinSec(minutes, seconds) ==
    IF minutes.exc = "none" /\ seconds.exc = "none"
    THEN [exc |-> "none", val |-> minutes.val * 60 + seconds.val]
    ELSE [exc |-> "ValueError", val |-> 0]

\* an HH:MM:SS branch that counts an hour as 60 seconds
ParseHourAsMinute(hours, minutes, seconds) ==
    IF hours.exc = "none" /\ minutes.exc = "none" /\ seconds.exc = "none"
    THEN [exc |-> "none", val |-> hours.val * 60 + minutes.val * 60 + seconds.val]
    ELSE [exc |-> "ValueError", val |-> 0]

\* lines 486-490: the HH:MM:SS branch
ParseHourMinSec(hours, minutes, seconds) ==
    IF hours.exc = "none" /\ minutes.exc = "none" /\ seconds.exc = "none"
    THEN [exc |-> "none", val |-> hours.val * 3600 + minutes.val * 60 + seconds.val]
    ELSE [exc |-> "ValueError", val |-> 0]

\* lines 478-492, on parts = timestamp_str.split(":")
ParseParts(parts) ==
    IF Len(parts) = 2
    THEN ParseMinSec(ParseInt(parts[1]), ParseInt(parts[2]))
    ELSE IF Len(parts) = 3
    THEN ParseHourMinSec(ParseInt(parts[1]), ParseInt(parts[2]), ParseInt(parts[3]))
    ELSE [exc |-> "ValueError", val |-> 0]

\* AISummarizer._parse_timestamp
ParseTimestamp(timestamp_str) ==
    IF Lower(timestamp_str) = EndLiteral THEN [exc |-> "none", val |-> 0 - 1]
    ELSE ParseParts(SplitColon(timestamp_str, <<>>))

(***************************************************************************)
(* Slicing                                                                 *)
(***************************************************************************)
Segment(s, e, t) == [start |-> s, end |-> e, text |-> t]

SliceError(msg) == [exc |-> "ValueError", msg |-> msg, text |-> EmptyText]

\* a selection of the segments that lie strictly inside the window
RECURSIVE SlicedInside(_, _, _)
SlicedInside(raw_segments, start_seconds, end_seconds) ==
    IF raw_segments = <<>> THEN <<>>
    ELSE LET segment == Head(raw_segments)
             rest == SlicedInside(Tail(raw_segments), start_seconds, end_seconds)
         IN  IF segment.start > start_seconds /\ segment.end < end_seconds
             THEN <<segment.text>> \o rest
             ELSE rest

\* the texts of the segments that overlap [start_seconds, end_seconds], in order
RECURSIVE SlicedSegments(_, _, _)
SlicedSegments(raw_segments, start_seconds, end_seconds) ==
    IF raw_segments = <<>> THEN <<>>
    ELSE LET segment == Head(raw_segments)
             rest == SlicedSegments(Tail(raw_segments), start_seconds, end_seconds)
         IN  IF segment.end >= start_seconds /\ segment.start <= end_seconds
             THEN <<segment.text>> \o rest
             ELSE rest

\* ' '.join(sliced_segments)
RECURSIVE JoinTexts(_)
JoinTexts(texts) ==
    IF texts = <<>> THEN <<>>
    ELSE AppendRuns(Head(texts).runs, JoinTexts(Tail(texts)))

\* lines 551-559: the sliced text, or the error for an empty selection
SliceJoin(sliced_segments) ==
    IF sliced_segments = <<>> THEN SliceError("no content")
    ELSE [exc |-> "none", msg |-> "", text |-> JoinWords(JoinTexts(sliced_segments))]

\* a validation that tests the end of the window before its start
SliceWindowEndFirst(raw_segments, start_seconds, end_seconds, video_duration) ==
    IF end_seconds > video_duration THEN SliceError("end exceeds duration")
    ELSE IF start_seconds < 0 THEN SliceError("start negative")
    ELSE IF start_seconds >= end_seconds THEN SliceError("start not before end")
    ELSE IF end_seconds - start_seconds < MinSegmentSeconds THEN SliceError("too short")
    ELSE SliceJoin(SlicedSegments(raw_segments, start_seconds, end_seconds))

\* lines 526-549: the validation of the window, then the selection
SliceWindow(raw_segments, start_seconds, end_seconds, video_duration) ==
    IF start_seconds < 0 THEN SliceError("start negative")
    ELSE IF end_seconds > video_duration THEN SliceError("end exceeds duration")
    ELSE IF start_seconds >= end_seconds THEN SliceError("start not before end")
    ELSE IF end_seconds - start_seconds < MinSegmentSeconds THEN SliceError("too short")
    ELSE SliceJoin(SlicedSegments(raw_segments, start_seconds, end_seconds))

\* lines 523-524: `if end_seconds == -1: end_seconds = video_duration`
ResolveEnd(end_seconds, video_duration) ==
    IF end_seconds = 0 - 1 THEN video_duration ELSE end_seconds

\* lines 516-524: the two timestamps, the video duration and the resolution of "end"
SliceParsed(raw_segments, start, end, video_duration) ==
    IF start.exc # "none" \/ end.exc # "none" THEN SliceError("timestamp format")
    ELSE SliceWindow(raw_segments, start.val, ResolveEnd(end.val, video_duration),
                     video_duration)

\* AISummarizer._slice_transcript
SliceTranscript(raw_segments, start_time, end_time) ==
    IF raw_segments = <<>> THEN SliceError("no timestamp data")
    ELSE SliceParsed(raw_segments, ParseTimestamp(start_time), ParseTimestamp(end_time),
                     raw_segments[Len(raw_segments)].end)

(***************************************************************************)
(* Summary objects                                                         *)
(***************************************************************************)
BaseKeys == {"quick_takeaway", "key_points", "topics", "timestamps", "full_summary"}
IndepthKeys == {"detailed_analysis", "key_quotes", "arguments"}
AllKeys == BaseKeys \cup IndepthKeys

\* required_fields of _summarize_single_pass
RequiredFields(mode) == IF mode = "indepth" THEN BaseKeys \cup IndepthKeys ELSE BaseKeys

\* Python None, and a str: what redis-py returns under decode_responses=True
NoneVal == [type |-> "none", text |-> ""]
StrVal(s) == [type |-> "str", text |-> s]

\* bool(value) of an Optional[str]
Truthy(v) == v.type # "none" /\ ~(v.type = "str" /\ v.text = "")

NoContent == [kind |-> "model", legacy |-> "", text |-> EmptyText, suffix |-> ""]

TruncationNote == "... (summary truncated due to processing error)"

\* AISummarizer._get_fallback_summary
GetFallbackSummary(transcript, title, existing_summary) ==
    LET words == TakeWords(SplitWords(transcript), FallbackWords)
        summary_content ==
            IF Truthy(existing_summary)
            THEN [kind |-> "legacy", legacy |-> existing_summary.text,
                  text |-> EmptyText, suffix |-> ""]
            ELSE [kind |-> "transcript", legacy |-> "", text |-> JoinWords(words),
                  suffix |-> IF WordCount(transcript) > FallbackWords
                             THEN TruncationNote ELSE ""]
    IN  [type |-> "dict", origin |-> "fallback", keys |-> BaseKeys,
         key_points |-> "list", full_summary |-> "list",
         section_ids |-> <<1>>, topic_refs |-> <<1>>,
         content |-> summary_content, takeaway |-> <<"Summary of: ", title>>,
         body |-> 0]

(***************************************************************************)
(* The generative backend                                                  *)
(***************************************************************************)
\* the text of a response: whether json.loads accepts it and, if so, the shape
\* of the value: for an object its keys, for an array its string elements, for
\* a string the field names that occur in it
RawResponse(json, top, keys, kp, fs, body) ==
    [json |-> json, top |-> top, keys |-> keys, key_points |-> kp,
     full_summary |-> fs, body |-> body]

NoRaw == RawResponse(FALSE, "none", {}, "none", "none", 0)

RawResponses ==
    {RawResponse(TRUE, "object", ks, "list", "list", b) :
        ks \in {BaseKeys, AllKeys}, b \in 1..NumBodies}
    \cup {RawResponse(FALSE, "none", {}, "none", "none", 0),
          RawResponse(TRUE, "object", BaseKeys \ {"full_summary"}, "list", "none", 1),
          RawResponse(TRUE, "object", AllKeys, "string", "list", 1),
          RawResponse(TRUE, "object", AllKeys, "list", "string", 1),
          RawResponse(TRUE, "array", AllKeys, "none", "none", 1),
          RawResponse(TRUE, "string", AllKeys, "none", "none", 1),
          RawResponse(TRUE, "number", {}, "none", "none", 1)}

\* what one call of the backend does: a failure, or a response text
Outcome(kind, raw) == [kind |-> kind, raw |-> raw]

BackendOutcomes ==
    {Outcome(k, NoRaw) : k \in {"no_api_key", "api_error", "empty"}}
    \cup {Outcome("text", r) : r \in RawResponses}

\* AISummarizer._generate_with_gemini (the prompt text itself is not modelled)
GenerateWithGemini(gemini_available, outcome) ==
    IF ~gemini_available THEN [exc |-> "RuntimeError", raw |-> NoRaw]
    ELSE IF outcome.kind = "text" THEN [exc |-> "none", raw |-> outcome.raw]
    ELSE [exc |-> "RuntimeError", raw |-> NoRaw]

\* json.loads(raw_response) as a summary object
ParsedSummary(raw) ==
    [type |-> "dict", origin |-> "model", keys |-> raw.keys,
     key_points |-> raw.key_points, full_summary |-> raw.full_summary,
     section_ids |-> <<1, 2>>, topic_refs |-> <<1, 2>>,
     content |-> NoContent, takeaway |-> <<"model", "">>, body |-> raw.body]

NoSummary ==
    [type |-> "none", origin |-> "none", keys |-> {}, key_points |-> "none",
     full_summary |-> "none", section_ids |-> <<>>, topic_refs |-> <<>>,
     content |-> NoContent, takeaway |-> <<"", "">>, body |-> 0]

Returned(v) == [exc |-> "none", val |-> v]
Raised(e) == [exc |-> e, val |-> NoSummary]

\* a validation that asks for the five base fields in every mode
ValidateBaseFields(raw, mode, fallback) ==
    IF ~raw.json THEN Returned(fallback)
    ELSE IF raw.top \notin {"object", "array", "string"} THEN Raised("TypeError")
    ELSE IF BaseKeys \ raw.keys # {} THEN Returned(fallback)
    ELSE IF raw.top # "object" THEN Raised("AttributeError")
    ELSE IF raw.key_points # "list" THEN Returned(fallback)
    ELSE IF raw.full_summary # "list" THEN Returned(fallback)
    ELSE Returned(ParsedSummary(raw))

\* the inner try block of _summarize_single_pass (lines 686-718); fallback is
\* self._get_fallback_summary(transcript, title)
ValidateResponse(raw, mode, fallback) ==
    IF ~raw.json THEN Returned(fallback)
    ELSE IF raw.top \notin {"object", "array", "string"} THEN Raised("TypeError")
    ELSE IF RequiredFields(mode) \ raw.keys # {} THEN Returned(fallback)
    ELSE IF raw.top # "object" THEN Raised("AttributeError")
    ELSE IF raw.key_points # "list" THEN Returned(fallback)
    ELSE IF raw.full_summary # "list" THEN Returned(fallback)
    ELSE Returned(ParsedSummary(raw))

\* the outer try block of _summarize_single_pass (lines 680-718); gen is the
\* outcome of self._generate_with_gemini(...)
SinglePassBody(gen, mode, fallback) ==
    IF gen.exc # "none" THEN Raised(gen.exc)
    ELSE ValidateResponse(gen.raw, mode, fallback)

\* a handler that lets the exception through
Propagate(result, fallback) == result

\* `except Exception: return self._get_fallback_summary(transcript, title)`
OrFallback(result, fallback) ==
    IF result.exc # "none" THEN Returned(fallback) ELSE result

\* AISummarizer._summarize_single_pass
SummarizeSinglePass(gemini_available, outcome, transcript, title, mode) ==
    OrFallback(SinglePassBody(GenerateWithGemini(gemini_available, outcome), mode,
                              GetFallbackSummary(transcript, title, NoneVal)),
               GetFallbackSummary(transcript, title, NoneVal))

(***************************************************************************)
(* Chunked summarization                                                   *)
(***************************************************************************)
\* AISummarizer.mode_configs
ModeConfigs ==
    [quick   |-> [chunking_threshold |-> ChunkingThreshold, chunk_size |-> ChunkSize,
                  max_tokens |-> 8000],
     indepth |-> [chunking_threshold |-> ChunkingThreshold, chunk_size |-> ChunkSize,
                  max_tokens |-> 16000]]

\* AISummarizer._estimate_duration_minutes: word_count / 150, as a fraction
EstimateDurationMinutes(transcript) ==
    [num |-> WordCount(transcript), den |-> WordsPerMinute]

\* fraction >= integer
AtLeast(q, n) == q.num >= n * q.den

\* fraction > integer
Exceeds(q, n) == q.num > n * q.den

\* lines 644-652: "chunked" or "single"
SelectStrategy(transcript, config) ==
    IF Exceeds(EstimateDurationMinutes(transcript), config.chunking_threshold)
    THEN "chunked" ELSE "single"

\* a split whose slices start one word too late: words[i + 1:i + 1 + chunk_size]
RECURSIVE SplitChunksShifted(_, _)
SplitChunksShifted(words, chunk_size) ==
    IF words = <<>> THEN <<>>
    ELSE <<JoinWords(TakeWords(DropWords(words, 1), chunk_size))>>
            \o SplitChunksShifted(DropWords(words, chunk_size), chunk_size)

\* AISummarizer._split_transcript, on the words
RECURSIVE SplitChunks(_, _)
SplitChunks(words, chunk_size) ==
    IF words = <<>> THEN <<>>
    ELSE <<JoinWords(TakeWords(words, chunk_size))>>
            \o SplitChunks(DropWords(words, chunk_size), chunk_size)

SplitTranscript(transcript, chunk_size) == SplitChunks(SplitWords(transcript), chunk_size)

\* the kept words followed by "...", glued to the last word or a word of its own
ExcerptEnd(head, glued) ==
    IF head = <<>> THEN <<Run("...", 1)>>
    ELSE IF glued
    THEN AppendRuns(TakeWords(head, SumRuns(head) - 1),
                    <<Run(head[Len(head)].w \o "...", 1)>>)
    ELSE AppendRuns(head, <<Run("...", 1)>>)

\* chunk[:500] + "..." for the k one-character words of a chunk: word i is
\* character 2i-1 and is followed by a space
ExcerptWords(words, k) ==
    IF 2 * k - 1 <= ExcerptChars
    THEN ExcerptEnd(words, TRUE)
    ELSE ExcerptEnd(TakeWords(words, (ExcerptChars + 1) \div 2), ExcerptChars % 2 = 1)

Excerpt(chunk) == Text(0, ExcerptWords(SplitWords(chunk), WordCount(chunk)))

\* the digests the backend may return for a chunk, after .strip()
Digests == {Text(0, <<Run("d", 3)>>)}

ChunkOutcome(kind, text) == [kind |-> kind, text |-> text]

ChunkOutcomes ==
    {ChunkOutcome(k, EmptyText) : k \in {"no_api_key", "api_error", "empty"}}
    \cup {ChunkOutcome("text", d) : d \in Digests}

\* a condensation whose failures leave an empty digest
SummarizeChunkOrNothing(gemini_available, outcome, chunk) ==
    IF ~gemini_available THEN EmptyText
    ELSE IF outcome.kind = "text" THEN outcome.text
    ELSE EmptyText

\* AISummarizer._summarize_chunk
SummarizeChunk(gemini_available, outcome, chunk) ==
    IF ~gemini_available THEN Excerpt(chunk)
    ELSE IF outcome.kind = "text" THEN outcome.text
    ELSE Excerpt(chunk)

\* "\n\n---\n\n".join(chunk_summaries)
RECURSIVE MetaRuns(_)
MetaRuns(chunk_summaries) ==
    IF chunk_summaries = <<>> THEN <<>>
    ELSE IF Len(chunk_summaries) = 1 THEN Head(chunk_summaries).runs
    ELSE AppendRuns(AppendRuns(Head(chunk_summaries).runs, <<Run("---", 1)>>),
                    MetaRuns(Tail(chunk_summaries)))

MetaTranscript(chunk_summaries) ==
    Text(IF chunk_summaries # <<>> /\ Len(chunk_summaries) > 1
            /\ Head(chunk_summaries).runs = <<>> THEN 2 ELSE 0,
         MetaRuns(chunk_summaries))

\* AISummarizer._summarize_in_chunks, from step 4 on: the structured call on the
\* meta-transcript inside the try block whose handler falls back on `transcript`
SummarizeInChunks(gemini_available, outcome, chunk_summaries, transcript, title, mode) ==
    OrFallback(SummarizeSinglePass(gemini_available, outcome,
                                   MetaTranscript(chunk_summaries), title, mode),
               GetFallbackSummary(transcript, title, NoneVal))

(***************************************************************************)
(* The cache                                                               *)
(***************************************************************************)
\* how a call of the redis client ends as far as the connection goes
Conns == {"ok", "ConnectionError"}

\* how redis.ping() ends when the CacheManager is constructed
Pings == {"ok", "ConnectionError", "TimeoutError"}

\* the subclasses of redis.RedisError that occur
IsRedisError(e) == e \in {"ConnectionError", "TimeoutError", "DataError"}

\* CacheManager.__init__: the value of self.redis, or the exception that leaves it
CacheManagerInit(redis_client, ping) ==
    IF redis_client = "none" THEN [exc |-> "none", redis |-> "none"]
    ELSE IF ping = "ok" THEN [exc |-> "none", redis |-> "client"]
    ELSE IF ping \in {"ConnectionError", "AttributeError"}
    THEN [exc |-> "none", redis |-> "none"]
    ELSE [exc |-> ping, redis |-> "none"]

\* routes/video.py, lines 37-45: the cache manager handed to AISummarizer
Wired(made) ==
    [kind |-> "manager",
     redis |-> IF made.exc # "none" THEN CacheManagerInit("none", "ok").redis
               ELSE made.redis]

WireCache(ping) == Wired(CacheManagerInit("client", ping))

\* test_ytdlp.py, line 27: CacheManager(redis_client=None)
DisabledCache == [kind |-> "manager", redis |-> CacheManagerInit("none", "ok").redis]

\* test_phase4_backend.py: AISummarizer()
NoCache == [kind |-> "none", redis |-> "none"]

\* tests/test_services.py: AISummarizer(Mock(spec=CacheManager)) as set up by
\* test_cache_hit_returns_cached_summary
MockCache == [kind |-> "mock", redis |-> "none"]

MockReturnValue ==
    [type |-> "dict", origin |-> "mock", keys |-> BaseKeys,
     key_points |-> "list", full_summary |-> "list",
     section_ids |-> <<1>>, topic_refs |-> <<1>>,
     content |-> NoContent, takeaway |-> <<"Test takeaway", "">>, body |-> 0]

\* CacheManager.generate_content_hash: the digest is taken to be collision free
GenerateContentHash(content) == <<"sha256", content>>

\* a content string without the PROMPT_VERSION field
UnversionedContent(version, mode, start_time, end_time, tone, transcript, title) ==
    <<mode, start_time, end_time, tone, transcript, title>>

\* the f-string of lines 631 and 657, field by field
VersionedContent(version, mode, start_time, end_time, tone, transcript, title) ==
    <<version, mode, start_time, end_time, tone, transcript, title>>

SummaryKey(content_hash) == <<"summary", content_hash>>

\* redis.get under decode_responses=True
RedisGet(st, key, conn) ==
    IF conn # "ok" THEN [exc |-> conn, val |-> NoneVal]
    ELSE [exc |-> "none", val |-> IF key \in DOMAIN st THEN st[key] ELSE NoneVal]

\* a client that stores whatever value it is given
RedisSetexAnyValue(st, key, value, conn) ==
    IF conn # "ok" THEN [exc |-> conn, ok |-> FALSE, store |-> st]
    ELSE [exc |-> "none", ok |-> TRUE,
          store |-> [k \in DOMAIN st \cup {key} |-> IF k = key THEN value ELSE st[k]]]

\* redis.setex: the client encodes bytes, str, int and float and raises DataError
\* for a value of any other type
RedisSetex(st, key, value, conn) ==
    IF conn # "ok" THEN [exc |-> conn, ok |-> FALSE, store |-> st]
    ELSE IF value.type # "str" THEN [exc |-> "DataError", ok |-> FALSE, store |-> st]
    ELSE [exc |-> "none", ok |-> TRUE,
          store |-> [k \in DOMAIN st \cup {key} |-> IF k = key THEN value ELSE st[k]]]

\* a lookup without the `except redis.RedisError` handler
GetUnhandled(got) ==
    IF got.exc # "none" THEN got
    ELSE IF Truthy(got.val) THEN got ELSE [exc |-> "none", val |-> NoneVal]

\* the try block of get_cached_summary, on got = self.redis.get(key)
GetHandled(got) ==
    IF got.exc # "none"
    THEN IF IsRedisError(got.exc) THEN [exc |-> "none", val |-> NoneVal] ELSE got
    ELSE IF Truthy(got.val) THEN got ELSE [exc |-> "none", val |-> NoneVal]

\* CacheManager.get_cached_summary
GetCachedSummary(redis, st, content_hash, conn) ==
    IF redis = "none" THEN [exc |-> "none", val |-> NoneVal]
    ELSE GetHandled(RedisGet(st, SummaryKey(content_hash), conn))

\* a store without the `except redis.RedisError` handler
SetUnhandled(set, st) == set

\* the try block of cache_summary, on set = self.redis.setex(key, expiration, summary)
SetHandled(set, st) ==
    IF set.exc # "none" /\ IsRedisError(set.exc)
    THEN [exc |-> "none", ok |-> FALSE, store |-> st]
    ELSE set

\* CacheManager.cache_summary
CacheSummary(redis, st, content_hash, summary, conn) ==
    IF redis = "none" THEN [exc |-> "none", ok |-> FALSE, store |-> st]
    ELSE SetHandled(RedisSetex(st, SummaryKey(content_hash), summary, conn), st)

(***************************************************************************)
(* Requests                                                                *)
(***************************************************************************)
T0000 == <<"0", "0", ":", "0", "0">>
T0030 == <<"0", "0", ":", "3", "0">>
T0100 == <<"0", "1", ":", "0", "0">>
TEnd == <<"e", "n", "d">>

\* segments in the format of the _slice_transcript docstring, 200 seconds long
SegmentsA ==
    <<Segment(0, 60, Text(0, <<Run("a", 2)>>)),
      Segment(60, 120, Text(0, <<Run("b", 1)>>)),
      Segment(120, 200, Text(0, <<Run("a", 3)>>))>>

Transcripts ==
    {Text(0, <<>>),
     Text(3, <<>>),
     Text(0, <<Run("a", 2), Run("b", 1), Run("a", 3)>>),
     Text(0, <<Run("a", FallbackWords + 1)>>),
     Text(0, <<Run("a", ChunkingThreshold * WordsPerMinute)>>),
     Text(0, <<Run("a", ChunkSize), Run("b", ChunkingThreshold * WordsPerMinute - ChunkSize + 1)>>)}

Titles == {"Test Video"}
Modes == {"quick", "indepth", "detailed"}
ValidTones == {"Objective", "Academic", "Casual", "Skeptical", "Provocative"}
Tones == {"Objective", "Sarcastic"}
SegmentLists == {<<>>, SegmentsA}
StartTimes == {T0000, T0100}
EndTimes == {TEnd, T0030}

Requests ==
    [transcript : Transcripts, title : Titles, mode : Modes, tone : Tones,
     raw_segments : SegmentLists, start_time : StartTimes, end_time : EndTimes]

DefaultRange(r) == r.start_time = T0000 /\ r.end_time = TEnd

CoerceMode(mode) == IF mode \in DOMAIN ModeConfigs THEN mode ELSE "quick"

CoerceTone(tone) == IF tone \in ValidTones THEN tone ELSE "Objective"

Prepared(exc, msg, mode, tone, transcript) ==
    [exc |-> exc, msg |-> msg, mode |-> mode, tone |-> tone, transcript |-> transcript]

\* line 623, on sliced = self._slice_transcript(...)
PreparedSlice(r, sliced) ==
    Prepared(sliced.exc, sliced.msg, CoerceMode(r.mode), CoerceTone(r.tone), sliced.text)

\* generate_comprehensive_summary, lines 604-625: the input checks, the mode and
\* tone defaults and the slicing
PrepareRequest(r) ==
    IF TranscriptIsBlank(r.transcript)
    THEN Prepared("ValueError", "empty transcript", r.mode, r.tone, r.transcript)
    ELSE IF ~DefaultRange(r) /\ r.raw_segments # <<>>
    THEN PreparedSlice(r, SliceTranscript(r.raw_segments, r.start_time, r.end_time))
    ELSE Prepared("none", "", CoerceMode(r.mode), CoerceTone(r.tone), r.transcript)

\* the content hash of lines 631-632 and 657-658
RequestHash(version, c, r) ==
    GenerateContentHash(VersionedContent(version, c.mode, r.start_time, r.end_time,
                                         c.tone, c.transcript, r.title))

(***************************************************************************)
(* State                                                                   *)
(***************************************************************************)
VARIABLES
    req,            \* the arguments of the generate_comprehensive_summary calls
    promptVersion,  \* PROMPT_VERSION of the deployed code: 5 is "v5.0"
    gemini,         \* GEMINI_AVAILABLE
    cache,          \* AISummarizer.cache: its kind and CacheManager.redis
    store,          \* the Redis server: key -> value
    pc,             \* where the running call is
    call,           \* the locals of the running call, and what it has done
    prev,           \* the call that returned last
    expired,        \* an entry has expired since the last return
    peer,           \* the pc and locals of a second call that runs concurrently
    video,          \* the Video row and the process_video request that works on it
    probe           \* the argument and the result of a function called on its own

vars == <<req, promptVersion, gemini, cache, store, pc, call, prev, expired,
          peer, video, probe>>

\* what the calls of generate_comprehensive_summary leave alone
aux == <<peer, video, probe>>

IdleCall ==
    [mode |-> "", tone |-> "", transcript |-> EmptyText, hash |-> <<>>,
     stored_hash |-> <<>>, cached |-> NoneVal, route |-> "none", chunks |-> <<>>, digests |-> <<>>,
     summary |-> NoSummary, error |-> "none", msg |-> "", log |-> <<>>,
     lookups |-> 0, writes |-> 0, written |-> NoSummary,
     lookup_conn |-> "none", store_conn |-> "none", store_ok |-> FALSE]

\* of the call that returned last: whether it generated a validated summary and
\* handed it to a cache whose backend was reachable, and that summary
NoPrev == [stored |-> FALSE, summary |-> NoSummary, version |-> 0]

EmptyStore == [k \in {} |-> NoneVal]

\* no second call, no process_video request, no function called on its own
NoPeer == [pc |-> "none", call |-> IdleCall]
NoVideo == [phase |-> "none"]
NoProbe == [op |-> "none"]

\* what an earlier deployment or another writer may have left under the key
SeedValues == {StrVal("old text summary"), StrVal("")}

SeedsFor(r, p) ==
    IF p.exc # "none" THEN {EmptyStore}
    ELSE {EmptyStore}
         \cup {[k \in {SummaryKey(RequestHash(InitialPromptVersion, p, r))} |-> v] :
                 v \in SeedValues}

SeededStores(r) == SeedsFor(r, PrepareRequest(r))

Caches == {NoCache, MockCache, DisabledCache} \cup {WireCache(ping) : ping \in Pings}

Init ==
    /\ req \in Requests
    /\ promptVersion = InitialPromptVersion
    /\ gemini \in BOOLEAN
    /\ cache \in Caches
    /\ store \in (IF cache.kind = "manager" /\ cache.redis = "client"
                  THEN SeededStores(req) ELSE {EmptyStore})
    /\ pc = "idle"
    /\ call = IdleCall
    /\ prev = NoPrev
    /\ expired = FALSE
    /\ peer = NoPeer
    /\ video = NoVideo
    /\ probe = NoProbe

\* lines 644-652: the strategy, and the chunks when the chunked route is taken
Routed(c, route, chunk_size) ==
    [c EXCEPT !.route = route,
              !.chunks = IF route = "chunked"
                         THEN SplitTranscript(c.transcript, chunk_size) ELSE <<>>]

BeginRoute(c) ==
    Routed(c, SelectStrategy(c.transcript, ModeConfigs[c.mode]),
           ModeConfigs[c.mode].chunk_size)

RoutePc(c) == IF c.route = "chunked" THEN "chunking" ELSE "single_pass"

Proceed(c) ==
    /\ pc' = RoutePc(c)
    /\ call' = c

Started(p, c) ==
    IF p.exc # "none"
    THEN /\ pc' = "raised"
         /\ call' = [c EXCEPT !.error = p.exc, !.msg = p.msg]
    ELSE IF cache.kind # "none"
    THEN /\ pc' = "cache_check"
         /\ call' = c
    ELSE Proceed(BeginRoute(c))

Entered(p) ==
    Started(p, [IdleCall EXCEPT !.mode = p.mode, !.tone = p.tone,
                                !.transcript = p.transcript])

\* generate_comprehensive_summary up to the cache check
Call ==
    /\ pc = "idle"
    /\ Entered(PrepareRequest(req))
    /\ UNCHANGED <<req, promptVersion, gemini, cache, store, prev, expired, aux>>

\* self.cache.generate_content_hash and self.cache.get_cached_summary
Looked(got, h) == [exc |-> got.exc, val |-> got.val, hash |-> h]

CacheLookup(c, conn) ==
    IF cache.kind = "mock"
    THEN [exc |-> "none", val |-> MockReturnValue, hash |-> <<"hash123">>]
    ELSE Looked(GetCachedSummary(cache.redis, store, RequestHash(promptVersion, c, req),
                                 conn),
                RequestHash(promptVersion, c, req))

\* a hit that is returned as it was read
HitAsRead(c, cached_summary) == cached_summary

\* lines 634-640: what a hit returns
HitResult(c, cached_summary) ==
    IF cached_summary.type = "str"
    THEN GetFallbackSummary(c.transcript, req.title, cached_summary)
    ELSE cached_summary

\* a cache check that generates whatever the lookup returned
CheckedThenGenerate(got, c) ==
    IF got.exc # "none"
    THEN /\ pc' = "raised"
         /\ call' = [c EXCEPT !.error = got.exc]
    ELSE Proceed(BeginRoute(c))

\* lines 633-642: the branch on the outcome of the lookup
Checked(got, c) ==
    IF got.exc # "none"
    THEN /\ pc' = "raised"
         /\ call' = [c EXCEPT !.error = got.exc]
    ELSE IF Truthy(got.val)
    THEN /\ pc' = "done"
         /\ call' = [c EXCEPT !.route = "cache_hit", !.summary = HitResult(c, got.val)]
    ELSE Proceed(BeginRoute(c))

Looking(got, conn) ==
    Checked(got, [call EXCEPT !.hash = got.hash, !.cached = got.val,
                              !.lookups = @ + 1, !.lookup_conn = conn])

\* lines 630-642: the cache check
CacheCheck ==
    /\ pc = "cache_check"
    /\ \E conn \in Conns : Looking(CacheLookup(call, conn), conn)
    /\ UNCHANGED <<req, promptVersion, gemini, cache, store, prev, expired, aux>>

StructuredOutcomes == IF gemini THEN BackendOutcomes ELSE {Outcome("no_library", NoRaw)}

AfterGeneration == IF cache.kind # "none" THEN "cache_store" ELSE "done"

Generated(r, c) ==
    IF r.exc # "none"
    THEN /\ pc' = "raised"
         /\ call' = [c EXCEPT !.error = r.exc]
    ELSE /\ pc' = AfterGeneration
         /\ call' = [c EXCEPT !.summary = r.val]

\* a single pass that sends its request to the backend a second time
SinglePassTwice ==
    /\ pc = "single_pass"
    /\ \E outcome \in StructuredOutcomes :
         Generated(SummarizeSinglePass(gemini, outcome, call.transcript, req.title,
                                       call.mode),
                   [call EXCEPT !.log = @ \o <<<<"structured", 0>>, <<"structured", 0>>>>])
    /\ UNCHANGED <<req, promptVersion, gemini, cache, store, prev, expired, aux>>

\* the call of _summarize_single_pass at line 652
SinglePass ==
    /\ pc = "single_pass"
    /\ \E outcome \in StructuredOutcomes :
         Generated(SummarizeSinglePass(gemini, outcome, call.transcript, req.title,
                                       call.mode),
                   [call EXCEPT !.log = Append(@, <<"structured", 0>>)])
    /\ UNCHANGED <<req, promptVersion, gemini, cache, store, prev, expired, aux>>

ChunkCallOutcomes == IF gemini THEN ChunkOutcomes ELSE {ChunkOutcome("no_library", EmptyText)}

\* one turn of the loop of _summarize_in_chunks, lines 748-754
ChunkStep ==
    /\ pc = "chunking"
    /\ Len(call.digests) < Len(call.chunks)
    /\ \E outcome \in ChunkCallOutcomes :
         call' = [call EXCEPT
                    !.digests = Append(@, SummarizeChunk(gemini, outcome,
                                                         call.chunks[Len(call.digests) + 1])),
                    !.log = Append(@, <<"chunk", Len(call.digests) + 1>>)]
    /\ pc' = "chunking"
    /\ UNCHANGED <<req, promptVersion, gemini, cache, store, prev, expired, aux>>

\* _summarize_in_chunks, lines 756-768: the meta-transcript and the final call
MetaPass ==
    /\ pc = "chunking"
    /\ Len(call.digests) = Len(call.chunks)
    /\ \E outcome \in StructuredOutcomes :
         Generated(SummarizeInChunks(gemini, outcome, call.digests, call.transcript,
                                     req.title, call.mode),
                   [call EXCEPT !.log = Append(@, <<"structured", 0>>)])
    /\ UNCHANGED <<req, promptVersion, gemini, cache, store, prev, expired, aux>>

\* self.cache.generate_content_hash and self.cache.cache_summary
Put(set, h) == [exc |-> set.exc, ok |-> set.ok, store |-> set.store, hash |-> h]

CacheWrite(c, conn) ==
    IF cache.kind = "mock"
    THEN [exc |-> "none", ok |-> TRUE, store |-> store, hash |-> <<"hash123">>]
    ELSE Put(CacheSummary(cache.redis, store, RequestHash(promptVersion, c, req),
                          c.summary, conn),
             RequestHash(promptVersion, c, req))

Written(put, c) ==
    IF put.exc # "none"
    THEN /\ pc' = "raised"
         /\ call' = [c EXCEPT !.error = put.exc]
         /\ store' = store
    ELSE /\ pc' = "done"
         /\ call' = c
         /\ store' = put.store

Writing(put, conn) ==
    Written(put, [call EXCEPT !.writes = @ + 1, !.written = call.summary,
                              !.stored_hash = put.hash,
                              !.store_conn = conn, !.store_ok = put.ok])

\* lines 654-662: the cache store
CacheStore ==
    /\ pc = "cache_store"
    /\ \E conn \in Conns : Writing(CacheWrite(call, conn), conn)
    /\ UNCHANGED <<req, promptVersion, gemini, cache, prev, expired, aux>>

\* the call returns or raises to its caller; the next call may begin
Return ==
    /\ pc \in {"done", "raised"}
    /\ prev' = IF /\ pc = "done"
                  /\ call.route \in {"single", "chunked"}
                  /\ call.summary.origin = "model"
                  /\ call.writes = 1
                  /\ call.store_conn = "ok"
                  /\ cache.kind = "manager" /\ cache.redis = "client"
               THEN [stored |-> TRUE, summary |-> call.summary,
                     version |-> promptVersion]
               ELSE NoPrev
    /\ call' = IdleCall
    /\ pc' = "idle"
    /\ expired' = FALSE
    /\ UNCHANGED <<req, promptVersion, gemini, cache, store, aux>>

\* a release with a changed prompt: PROMPT_VERSION is incremented and the
\* services are constructed again
Redeploy ==
    /\ pc = "idle"
    /\ promptVersion < MaxPromptVersion
    /\ promptVersion' = promptVersion + 1
    /\ cache' \in (IF cache.kind = "manager" /\ cache # DisabledCache
                   THEN {WireCache(ping) : ping \in Pings} ELSE {cache})
    /\ UNCHANGED <<req, gemini, store, pc, call, prev, expired, aux>>

\* the TTL of an entry runs out
Expire ==
    /\ \E k \in DOMAIN store :
         store' = [j \in DOMAIN store \ {k} |-> store[j]]
    /\ expired' = TRUE
    /\ UNCHANGED <<req, promptVersion, gemini, cache, pc, call, prev, aux>>

Next ==
    \/ Call
    \/ CacheCheck
    \/ SinglePass
    \/ ChunkStep
    \/ MetaPass
    \/ CacheStore
    \/ Return
    \/ Redeploy
    \/ Expire

Spec == Init /\ [][Next]_vars

(***************************************************************************)
(* Requests that differ in their time range and title                      *)
(***************************************************************************)
T100 == <<"1", ":", "0", "0">>
T0130 == <<"0", "1", ":", "3", "0">>
T0200 == <<"0", "2", ":", "0", "0">>
T0320 == <<"0", "3", ":", "2", "0">>
T10530 == <<"1", ":", "0", "5", ":", "3", "0">>
TMinus100 == <<"-", "1", ":", "0", "0">>

RangeStartTimes == {T0000, T0100, T100, T0130, T10530, TMinus100}
RangeEndTimes == {TEnd, T0320, T0200, T0130, T10530}

\* a title of 139 characters
LongTitle == "Abbbbbbbbbbbbbbbbbbbbbbbbbbbbbbbbbbbbbbbbbbbbbbbbbbbbbbbbbbbbbbbbbbbbbbbbbbbbbbbbbbbbbbbbbbbbbbbbbbbbbbbbbbbbbbbbbbbbbbbbbbbbbbbbbbbbbbbbbb"

RangeTitles == {"Test Video", LongTitle}

RangeRequests ==
    [transcript : {Text(0, <<Run("a", 2), Run("b", 1), Run("a", 3)>>)},
     title : RangeTitles, mode : {"quick"}, tone : {"Objective"},
     raw_segments : SegmentLists,
     start_time : RangeStartTimes, end_time : RangeEndTimes]
    \cup
    [transcript : {Text(0, <<Run("a", ChunkSize),
                             Run("b", ChunkingThreshold * WordsPerMinute - ChunkSize + 1)>>)},
     title : {"Test Video"}, mode : {"quick"}, tone : {"Objective"},
     raw_segments : {SegmentsA}, start_time : {T0000}, end_time : {TEnd}]

RangeInit ==
    /\ req \in RangeRequests
    /\ promptVersion = InitialPromptVersion
    /\ gemini \in BOOLEAN
    /\ cache = WireCache("ok")
    /\ store \in SeededStores(req)
    /\ pc = "idle"
    /\ call = IdleCall
    /\ prev = NoPrev
    /\ expired = FALSE
    /\ peer = NoPeer
    /\ video = NoVideo
    /\ probe = NoProbe

RangeSpec == RangeInit /\ [][Next]_vars

(***************************************************************************)
(* _parse_timestamp called on its own                                      *)
(***************************************************************************)
MaxTimestampLen == 4

TimestampChars == {"0", "1", "5", ":", "e", "-", "x"}

TimestampStrings ==
    UNION {[1..n -> TimestampChars] : n \in 0..MaxTimestampLen}
    \cup {T0000, T0100, T0130, T0320, T10530, TMinus100, TEnd,
          <<"E", "N", "D">>, <<"E", "n", "d">>, <<"1", ":", "2", ":", "3", ":", "4">>,
          <<"0", "1", ":", "3", "x">>, <<"1", ":", "0", "5", ":", "x", "0">>}

\* a request that is never called
NoRequest ==
    [transcript |-> EmptyText, title |-> "", mode |-> "quick", tone |-> "Objective",
     raw_segments |-> <<>>, start_time |-> T0000, end_time |-> TEnd]

\* no service is running
Quiet ==
    /\ req = NoRequest
    /\ promptVersion = InitialPromptVersion
    /\ gemini = FALSE
    /\ cache = NoCache
    /\ store = EmptyStore
    /\ pc = "idle"
    /\ call = IdleCall
    /\ prev = NoPrev
    /\ expired = FALSE
    /\ peer = NoPeer
    /\ video = NoVideo

ParseInit ==
    /\ Quiet
    /\ probe \in [op : {"parse_timestamp"}, arg : TimestampStrings, at : {"called"},
                  exc : {"none"}, val : {0}, end_seconds : {0}]

\* self._parse_timestamp(end_time)
ParseCall ==
    /\ probe.op = "parse_timestamp"
    /\ probe.at = "called"
    /\ probe' = [probe EXCEPT !.at = "returned",
                              !.exc = ParseTimestamp(probe.arg).exc,
                              !.val = ParseTimestamp(probe.arg).val]
    /\ UNCHANGED <<req, promptVersion, gemini, cache, store, pc, call, prev, expired,
                   peer, video>>

\* _slice_transcript, lines 519-524, for the segments SegmentsA
ResolveCall ==
    /\ probe.op = "parse_timestamp"
    /\ probe.at = "returned"
    /\ probe.exc = "none"
    /\ probe' = [probe EXCEPT !.at = "resolved",
                              !.end_seconds = ResolveEnd(probe.val,
                                                         SegmentsA[Len(SegmentsA)].end)]
    /\ UNCHANGED <<req, promptVersion, gemini, cache, store, pc, call, prev, expired,
                   peer, video>>

ParseNext == ParseCall \/ ResolveCall

ParseSpec == ParseInit /\ [][ParseNext]_vars

(***************************************************************************)
(* Two calls of generate_comprehensive_summary at the same time            *)
(*                                                                         *)
(* routes/video.py holds one AISummarizer for the process; two requests    *)
(* handled by two threads call it with the same arguments.  pc and call    *)
(* belong to the thread that runs, peer to the one that waits.             *)
(***************************************************************************)
ConcRequests ==
    [transcript : {Text(0, <<Run("a", 2), Run("b", 1), Run("a", 3)>>),
                   Text(0, <<Run("a", ChunkSize),
                             Run("b", ChunkingThreshold * WordsPerMinute - ChunkSize + 1)>>)},
     title : {"Test Video"}, mode : {"quick"}, tone : {"Objective"},
     raw_segments : {<<>>}, start_time : {T0000}, end_time : {TEnd}]

ConcInit ==
    /\ req \in ConcRequests
    /\ promptVersion = InitialPromptVersion
    /\ gemini \in BOOLEAN
    /\ cache = WireCache("ok")
    /\ store \in SeededStores(req)
    /\ pc = "idle"
    /\ call = IdleCall
    /\ prev = NoPrev
    /\ expired = FALSE
    /\ peer = [pc |-> "idle", call |-> IdleCall]
    /\ video = NoVideo
    /\ probe = NoProbe

\* the interpreter takes the running thread off the processor and runs the other
Switch ==
    /\ peer.pc # "none"
    /\ pc' = peer.pc
    /\ call' = peer.call
    /\ peer' = [pc |-> pc, call |-> call]
    /\ UNCHANGED <<req, promptVersion, gemini, cache, store, prev, expired, video, probe>>

\* a step of the thread that runs
ThreadStep ==
    \/ Call
    \/ CacheCheck
    \/ SinglePass
    \/ ChunkStep
    \/ MetaPass
    \/ CacheStore

ConcNext ==
    \/ ThreadStep
    \/ Switch
    \/ Expire

ConcSpec == ConcInit /\ [][ConcNext]_vars

(***************************************************************************)
(* The process-video request and the cache entries of a video              *)
(*                                                                         *)
(* routes/video.py: process_video works on the Video row of one video_id.  *)
(* It calls transcript_extractor.get_transcript and then                   *)
(* ai_summarizer.generate_comprehensive_summary(video.transcript,          *)
(* video.title), every other argument at its default.  The commits of the  *)
(* database session are taken to succeed.  pc and call are those of the    *)
(* call of generate_comprehensive_summary the request makes.               *)
(***************************************************************************)
\* tests/test_api.py: the video of the sample URL
VideoId == "dQw4w9WgXcQ"

TranscriptKey(video_id) == <<"transcript", video_id>>

\* CacheManager.get_cached_transcript: the parsed entry, or None
GetCachedTranscript(redis, st, video_id, conn) ==
    IF redis = "none" \/ conn # "ok" THEN NoneVal
    ELSE IF TranscriptKey(video_id) \in DOMAIN st THEN st[TranscriptKey(video_id)]
    ELSE NoneVal

\* CacheManager.cache_transcript: json.dumps(transcript_data) is a str
CacheTranscript(redis, st, video_id, transcript_data, conn) ==
    IF redis = "none" THEN [exc |-> "none", ok |-> FALSE, store |-> st]
    ELSE SetHandled(RedisSetex(st, TranscriptKey(video_id),
                               [type |-> "str", text |-> "json", data |-> transcript_data],
                               conn), st)

\* how the extraction methods of get_transcript end for the video of request
\* r: with its transcript, with a transcript of nothing or of white space
\* only, or with every method failing
ExtractionOutcomes(r) ==
    {[exc |-> "Exception", data |-> [title |-> "", transcript |-> EmptyText]]}
    \cup {[exc |-> "none", data |-> [title |-> r.title, transcript |-> t]] :
            t \in {r.transcript, EmptyText, Text(3, <<>>)}}

\* TranscriptExtractor.get_transcript
GetTranscript(redis, st, video_id, cached_data, outcome, conn) ==
    IF cached_data.type # "none"
    THEN [exc |-> "none", data |-> cached_data.data, store |-> st]
    ELSE IF outcome.exc # "none"
    THEN [exc |-> outcome.exc, data |-> outcome.data, store |-> st]
    ELSE [exc |-> "none", data |-> outcome.data,
          store |-> CacheTranscript(redis, st, video_id, outcome.data, conn).store]

\* an except block that raises and leaves the status as it is
FailedWithoutStatus(v, response) ==
    [v EXCEPT !.phase = "returned", !.response = response]

\* process_video, lines 121-130: the except blocks
Failed(v, response) ==
    [v EXCEPT !.phase = "returned", !.status = "failed", !.response = response]

\* process_video, lines 95-103, on got = transcript_extractor.get_transcript(video_id)
Extracted(v, got) ==
    IF got.exc # "none" THEN Failed(v, "AIProcessingError")
    ELSE IF TranscriptIsBlank(got.data.transcript)
    THEN Failed([v EXCEPT !.title = got.data.title, !.transcript = got.data.transcript],
                "TranscriptExtractionError")
    ELSE [v EXCEPT !.title = got.data.title, !.transcript = got.data.transcript,
                   !.phase = "summarizing"]

\* the service starts with no row for the video; `patched` is
\* test_ai_processing_failure, which replaces generate_comprehensive_summary by
\* a double that raises
VideoInit ==
    /\ req \in ConcRequests
    /\ promptVersion = InitialPromptVersion
    /\ gemini \in BOOLEAN
    /\ cache \in {WireCache("ok"), WireCache("ConnectionError")}
    /\ store \in (IF cache.redis = "client" THEN SeededStores(req) ELSE {EmptyStore})
    /\ pc = "none"
    /\ call = IdleCall
    /\ prev = NoPrev
    /\ expired = FALSE
    /\ peer = NoPeer
    /\ video \in [phase : {"idle"}, status : {"absent"}, title : {""},
                  transcript : {EmptyText}, summary : {NoSummary},
                  response : {"none"}, patched : BOOLEAN, invalidated : {"none"}]
    /\ probe = NoProbe

\* a request that processes the row whatever its status is
ProcessAnyRow ==
    /\ video.phase \in {"idle", "returned"}
    /\ video' = [video EXCEPT !.phase = "extracting", !.status = "processing",
                              !.title = IF video.status = "absent"
                                        THEN "Processing..." ELSE @,
                              !.response = "none", !.invalidated = "none"]
    /\ pc' = "none"
    /\ call' = IdleCall
    /\ UNCHANGED <<req, promptVersion, gemini, cache, store, prev, expired, peer, probe>>

\* process_video, lines 80-93: a completed row is returned as it is, any other
\* is created or updated with the status 'processing' and committed
ProcessVideo ==
    /\ video.phase \in {"idle", "returned"}
    /\ IF video.status = "completed"
       THEN /\ video' = [video EXCEPT !.phase = "returned", !.response = "existing",
                                      !.invalidated = "none"]
            /\ UNCHANGED <<pc, call>>
       ELSE /\ video' = [video EXCEPT !.phase = "extracting", !.status = "processing",
                                      !.title = IF video.status = "absent"
                                                THEN "Processing..." ELSE @,
                                      !.response = "none", !.invalidated = "none"]
            /\ pc' = "none"
            /\ call' = IdleCall
    /\ UNCHANGED <<req, promptVersion, gemini, cache, store, prev, expired, peer, probe>>

\* process_video, lines 95-103: the transcript is fetched and looked at
ExtractStep ==
    /\ video.phase = "extracting"
    /\ \E lookup_conn \in Conns, outcome \in ExtractionOutcomes(req), store_conn \in Conns :
         LET got == GetTranscript(cache.redis, store, VideoId,
                                  GetCachedTranscript(cache.redis, store, VideoId,
                                                      lookup_conn),
                                  outcome, store_conn)
         IN  /\ video' = Extracted(video, got)
             /\ store' = got.store
             /\ pc' = IF Extracted(video, got).phase = "summarizing" /\ ~video.patched
                      THEN "idle" ELSE "none"
    /\ UNCHANGED <<req, promptVersion, gemini, cache, call, prev, expired, peer, probe>>

\* process_video, lines 113-130: the summarizer has returned or raised
FinishVideo ==
    /\ video.phase = "summarizing"
    /\ video.patched \/ pc \in {"done", "raised"}
    /\ video' = IF ~video.patched /\ pc = "done"
                THEN [video EXCEPT !.summary = call.summary, !.status = "completed",
                                   !.response = "ok", !.phase = "returned"]
                ELSE Failed(video, "AIProcessingError")
    /\ pc' = "none"
    /\ UNCHANGED <<req, promptVersion, gemini, cache, store, call, prev, expired, peer,
                   probe>>

\* CacheManager.invalidate_video_cache(video_id), called between two requests
InvalidateVideoCache ==
    /\ video.phase \in {"idle", "returned"}
    /\ \E conn \in Conns :
         IF cache.redis = "none" \/ conn # "ok"
         THEN /\ video' = [video EXCEPT !.invalidated = "False"]
              /\ store' = store
         ELSE /\ video' = [video EXCEPT !.invalidated = "True"]
              /\ store' = [k \in DOMAIN store \ {TranscriptKey(VideoId)} |-> store[k]]
    /\ UNCHANGED <<req, promptVersion, gemini, cache, pc, call, prev, expired, peer, probe>>

VideoNext ==
    \/ ProcessVideo
    \/ ExtractStep
    \/ Call
    \/ CacheCheck
    \/ SinglePass
    \/ ChunkStep
    \/ MetaPass
    \/ CacheStore
    \/ FinishVideo
    \/ InvalidateVideoCache

VideoSpec == VideoInit /\ [][VideoNext]_vars

(***************************************************************************)
(* _split_transcript called on its own                                     *)
(***************************************************************************)
MaxRunWords == 3
MaxChunkWords == 4

\* transcripts of one to three runs of the words "a" and "b"
SplitRuns ==
    {<<Run(w, n)>> : w \in {"a", "b"}, n \in 1..MaxRunWords}
    \cup {<<Run(w, n), Run(IF w = "a" THEN "b" ELSE "a", m)>> :
            w \in {"a", "b"}, n \in 1..MaxRunWords, m \in 1..MaxRunWords}
    \cup {<<Run(w, n), Run(IF w = "a" THEN "b" ELSE "a", m), Run(w, k)>> :
            w \in {"a", "b"}, n \in 1..MaxRunWords, m \in 1..MaxRunWords,
            k \in 1..MaxRunWords}

SplitInit ==
    /\ Quiet
    /\ probe \in [op : {"split_transcript"}, arg : {Text(0, rs) : rs \in SplitRuns},
                  chunk_size : 1..MaxChunkWords, at : {"called"}, chunks : {<<>>}]

\* self._split_transcript(transcript, chunk_size=chunk_size)
SplitCall ==
    /\ probe.op = "split_transcript"
    /\ probe.at = "called"
    /\ probe' = [probe EXCEPT !.at = "returned",
                              !.chunks = SplitTranscript(probe.arg, probe.chunk_size)]
    /\ UNCHANGED <<req, promptVersion, gemini, cache, store, pc, call, prev, expired,
                   peer, video>>

SplitSpec == SplitInit /\ [][SplitCall]_vars

(***************************************************************************)
(* _slice_transcript on the segments the extraction methods return         *)
(***************************************************************************)
\* _extract_with_api, lines 279-282: the segments of the 200 second video
ApiSegments ==
    <<[start |-> 0, duration |-> 60, text |-> Text(0, <<Run("a", 2)>>)],
      [start |-> 60, duration |-> 60, text |-> Text(0, <<Run("b", 1)>>)],
      [start |-> 120, duration |-> 80, text |-> Text(0, <<Run("a", 3)>>)]>>

ExtractionMethods == {"youtube_api", "yt-dlp", "web_scraping", "browser_automation"}

\* transcript_data.get('raw_segments') for the dict each method returns; <<>>
\* stands for the empty list of yt-dlp and for the missing key of the other two
RawSegmentsOf(method) == IF method = "youtube_api" THEN ApiSegments ELSE <<>>

\* _slice_transcript, lines 511-520, for segments that are dicts with any
\* keys: raw_segments[-1]['end'] is looked up after the timestamps are parsed
SliceDicts(raw_segments, start, end) ==
    IF raw_segments = <<>> THEN SliceError("no timestamp data")
    ELSE IF start.exc # "none" \/ end.exc # "none" THEN SliceError("timestamp format")
    ELSE IF "end" \notin DOMAIN raw_segments[Len(raw_segments)]
    THEN [exc |-> "KeyError", msg |-> "end", text |-> EmptyText]
    ELSE SliceWindow(raw_segments, start.val,
                     ResolveEnd(end.val, raw_segments[Len(raw_segments)].end),
                     raw_segments[Len(raw_segments)].end)

ExtractedInit ==
    /\ Quiet
    /\ probe \in [op : {"slice_extracted"}, method : ExtractionMethods,
                  start_time : RangeStartTimes, end_time : RangeEndTimes,
                  at : {"called"}, exc : {"none"}, msg : {""}]

\* self._slice_transcript(raw_segments, start_time, end_time) on the segments
\* of the method
SliceExtracted ==
    /\ probe.op = "slice_extracted"
    /\ probe.at = "called"
    /\ probe' = [probe EXCEPT
                   !.at = "returned",
                   !.exc = SliceDicts(RawSegmentsOf(probe.method),
                                      ParseTimestamp(probe.start_time),
                                      ParseTimestamp(probe.end_time)).exc,
                   !.msg = SliceDicts(RawSegmentsOf(probe.method),
                                      ParseTimestamp(probe.start_time),
                                      ParseTimestamp(probe.end_time)).msg]
    /\ UNCHANGED <<req, promptVersion, gemini, cache, store, pc, call, prev, expired,
                   peer, video>>

ExtractedSpec == ExtractedInit /\ [][SliceExtracted]_vars

(***************************************************************************)
(* _slice_transcript called with any end timestamp                         *)
(***************************************************************************)
EndStartTimes == {T0000, T0100}

EndInit ==
    /\ Quiet
    /\ probe \in [op : {"slice_end"}, start_time : EndStartTimes,
                  end_time : TimestampStrings, at : {"called"},
                  exc : {"none"}, msg : {""}, text : {EmptyText}]

\* self._slice_transcript(raw_segments, start_time, end_time) for the segments
\* SegmentsA
SliceEnd ==
    /\ probe.op = "slice_end"
    /\ probe.at = "called"
    /\ probe' = [probe EXCEPT
                   !.at = "returned",
                   !.exc = SliceTranscript(SegmentsA, probe.start_time, probe.end_time).exc,
                   !.msg = SliceTranscript(SegmentsA, probe.start_time, probe.end_time).msg,
                   !.text = SliceTranscript(SegmentsA, probe.start_time, probe.end_time).text]
    /\ UNCHANGED <<req, promptVersion, gemini, cache, store, pc, call, prev, expired,
                   peer, video>>

EndSpec == EndInit /\ [][SliceEnd]_vars

(***************************************************************************)
(* The content string of the cache key, character by character             *)
(***************************************************************************)
MaxKeyTextLen == 2

KeyChars == {"a", "_"}

\* PROMPT_VERSION = "v5.0"
PromptVersionChars == <<"v", "5", ".", "0">>

ModeChars ==
    [quick |-> <<"q", "u", "i", "c", "k">>,
     indepth |-> <<"i", "n", "d", "e", "p", "t", "h">>]

ToneChars ==
    [Objective |-> <<"O", "b", "j", "e", "c", "t", "i", "v", "e">>,
     Casual |-> <<"C", "a", "s", "u", "a", "l">>]

KeyTranscripts ==
    UNION {[1..n -> KeyChars] : n \in 1..MaxKeyTextLen} \cup {<<"a", "_", "b">>}

KeyTitles == {<<>>, <<"_", "a">>, <<"c">>, <<"b", "_", "c">>}

\* requests without raw_segments, after the coercion of mode and tone
KeyRequests ==
    [mode : DOMAIN ModeChars, tone : DOMAIN ToneChars, start_time : {T0000},
     end_time : {TEnd, T0100}, transcript : KeyTranscripts, title : KeyTitles]

\* lines 631 and 657:
\* f"{PROMPT_VERSION}_{mode}_{start_time}_{end_time}_{tone}_{transcript}_{title}"
VersionedContentChars(mode, start_time, end_time, tone, transcript, title) ==
    PromptVersionChars \o <<"_">> \o ModeChars[mode] \o <<"_">> \o start_time
        \o <<"_">> \o end_time \o <<"_">> \o ToneChars[tone] \o <<"_">> \o transcript
        \o <<"_">> \o title

KeyInit ==
    /\ Quiet
    /\ probe \in [op : {"cache_key"}, first : KeyRequests, second : KeyRequests,
                  at : {"called"}, contents : {<<>>}]

\* the content strings of two calls of generate_comprehensive_summary
KeyCall ==
    /\ probe.op = "cache_key"
    /\ probe.at = "called"
    /\ probe' = [probe EXCEPT
                   !.at = "returned",
                   !.contents =
                       <<VersionedContentChars(probe.first.mode, probe.first.start_time,
                                               probe.first.end_time, probe.first.tone,
                                               probe.first.transcript, probe.first.title),
                         VersionedContentChars(probe.second.mode, probe.second.start_time,
                                               probe.second.end_time, probe.second.tone,
                                               probe.second.transcript,
                                               probe.second.title)>>]
    /\ UNCHANGED <<req, promptVersion, gemini, cache, store, pc, call, prev, expired,
                   peer, video>>

KeySpec == KeyInit /\ [][KeyCall]_vars

(***************************************************************************)
(* ProgressTracker, for one video                                          *)
(*                                                                         *)
(* data is progress_data[video_id]; tracked is FALSE when the key is       *)
(* absent, and error is "none" when the dict has no 'error' key.  The      *)
(* times of the dict and of the update are left out.                       *)
(***************************************************************************)
ProcessingStage ==
    {"queued", "extracting_transcript", "generating_summary", "completed", "failed"}

\* lines 101-107
StageProgress ==
    [queued |-> 10, extracting_transcript |-> 40, generating_summary |-> 80,
     completed |-> 100, failed |-> 0]

\* the progress_percent argument: None (the default) or an int
ProgressArgs == {[given |-> FALSE, val |-> 0], [given |-> TRUE, val |-> 50]}

ProgressErrors == {"Transcript extraction failed", "Summary generation failed"}

ProgressMessages == {"Extracting transcript...", "Generating summary..."}

Untracked ==
    [tracked |-> FALSE, stage |-> "", progress_percent |-> 0, message |-> "",
     error |-> "none"]

NoUpdate ==
    [reported |-> FALSE, stage |-> "", progress_percent |-> 0, message |-> "",
     error |-> "none"]

\* the dict start_processing stores
Queued ==
    [tracked |-> TRUE, stage |-> "queued", progress_percent |-> 0,
     message |-> "Processing queued...", error |-> "none"]

\* lines 89-92 and 142-145: the dict of the video, started if absent
Tracked(data) == IF data.tracked THEN data ELSE Queued

\* ProgressTracker._create_progress_update; error is data.get('error')
CreateProgressUpdate(data) ==
    [reported |-> TRUE, stage |-> data.stage, progress_percent |-> data.progress_percent,
     message |-> data.message, error |-> data.error]

\* lines 92-108 of update_stage
StageData(data, stage, message, progress_percent) ==
    [Tracked(data) EXCEPT
       !.stage = stage,
       !.message = message,
       !.progress_percent = IF progress_percent.given THEN progress_percent.val
                            ELSE StageProgress[stage]]

\* lines 145-149 of fail_processing
FailedData(data, error) ==
    [Tracked(data) EXCEPT
       !.stage = "failed",
       !.message = <<"Processing failed: ", error>>,
       !.error = error,
       !.progress_percent = 0]

TrackerInit ==
    /\ Quiet
    /\ probe = [op |-> "progress_tracker", data |-> Untracked, update |-> NoUpdate]

TrackerIdle ==
    UNCHANGED <<req, promptVersion, gemini, cache, store, pc, call, prev, expired,
                peer, video>>

\* progress_tracker.start_processing(video_id)
StartProcessing ==
    /\ probe.op = "progress_tracker"
    /\ probe' = [probe EXCEPT !.data = Queued]
    /\ TrackerIdle

\* progress_tracker.update_stage(video_id, stage, message, progress_percent)
UpdateStage ==
    /\ probe.op = "progress_tracker"
    /\ \E stage \in ProcessingStage, message \in ProgressMessages,
          progress_percent \in ProgressArgs :
          probe' = [probe EXCEPT
                      !.data = StageData(probe.data, stage, message, progress_percent),
                      !.update = CreateProgressUpdate(
                                     StageData(probe.data, stage, message,
                                               progress_percent))]
    /\ TrackerIdle

\* progress_tracker.complete_processing(video_id)
CompleteProcessing ==
    /\ probe.op = "progress_tracker"
    /\ probe' = [probe EXCEPT
                   !.data = StageData(probe.data, "completed",
                                      "Processing completed successfully",
                                      [given |-> TRUE, val |-> 100]),
                   !.update = CreateProgressUpdate(
                                  StageData(probe.data, "completed",
                                            "Processing completed successfully",
                                      [given |-> TRUE, val |-> 100]))]
    /\ TrackerIdle

\* progress_tracker.fail_processing(video_id, error)
FailProcessing ==
    /\ probe.op = "progress_tracker"
    /\ \E error \in ProgressErrors :
          probe' = [probe EXCEPT
                      !.data = FailedData(probe.data, error),
                      !.update = CreateProgressUpdate(FailedData(probe.data, error))]
    /\ TrackerIdle

\* progress_tracker.get_progress(video_id)
GetProgress ==
    /\ probe.op = "progress_tracker"
    /\ probe' = [probe EXCEPT
                   !.update = IF probe.data.tracked
                              THEN CreateProgressUpdate(probe.data) ELSE NoUpdate]
    /\ TrackerIdle

\* progress_tracker.cleanup(video_id)
Cleanup ==
    /\ probe.op = "progress_tracker"
    /\ probe' = [probe EXCEPT !.data = Untracked]
    /\ TrackerIdle

TrackerNext ==
    \/ StartProcessing
    \/ UpdateStage
    \/ CompleteProcessing
    \/ FailProcessing
    \/ GetProgress
    \/ Cleanup

TrackerSpec == TrackerInit /\ [][TrackerNext]_vars

(***************************************************************************)
(* Properties                                                              *)
(***************************************************************************)
Finished == pc = "done"

Generating == call.route \in {"single", "chunked"}

RealCache == cache.kind = "manager" /\ cache.redis = "client"

HasWords(t) == t.runs # <<>>

\* C1: for a non-empty transcript and a valid mode, a call that went through
\* generation returns an object with every key required for that mode, with
\* key_points and full_summary lists, whatever the backend did.
C1_ModeKeysPresent ==
    (Finished /\ Generating /\ HasWords(req.transcript)
        /\ req.mode \in DOMAIN ModeConfigs)
    => /\ call.summary.type = "dict"
       /\ RequiredFields(req.mode) \subseteq call.summary.keys
       /\ call.summary.key_points = "list"
       /\ call.summary.full_summary = "list"

\* C2: a call raises only out of its input handling: the exception is the
\* ValueError of the transcript or range checks, raised before any cache or
\* backend call; no backend failure on the single-pass or the chunked route
\* leaves generate_comprehensive_summary.
C2_BackendFailuresContained ==
    /\ pc = "raised" => /\ call.error = "ValueError"
                        /\ PrepareRequest(req).exc = "ValueError"
                        /\ call.log = <<>>
                        /\ call.lookups = 0
    /\ (Finished /\ Generating) => call.summary.type = "dict" /\ call.log # <<>>

\* C2 witness: the chunked route ends with the fallback object after the
\* structured call on the meta-transcript failed.
C2_Witness ==
    /\ Finished
    /\ gemini
    /\ call.route = "chunked"
    /\ Len(call.log) = Len(call.chunks) + 1
    /\ call.summary.origin = "fallback"

\* C3: with a reachable cache and no expiry in between, the call after one that
\* generated a structured summary and stored it, with the same prompt version
\* and arguments, is served from the cache and returns the same payload.
C3_SecondCallServedFromCache ==
    (Finished /\ RealCache /\ prev.stored /\ prev.version = promptVersion
        /\ ~expired /\ call.lookup_conn = "ok")
    => /\ call.route = "cache_hit"
       /\ call.summary = prev.summary

\* C4: the payload handed to cache_summary is never a fallback payload.
C4_FallbackNeverHandedToCache ==
    call.writes >= 1 => call.written.origin # "fallback"

\* C5: a cache hit with a structured payload returns that payload after exactly
\* one lookup, with no backend call and no cache write.
C5_StructuredHitReturnsDirectly ==
    (call.lookups >= 1 /\ call.cached.type = "dict")
    => /\ Finished
       /\ call.route = "cache_hit"
       /\ call.summary = call.cached
       /\ call.lookups = 1
       /\ call.log = <<>>
       /\ call.digests = <<>>
       /\ call.writes = 0

\* C5 witness: the hit of test_cache_hit_returns_cached_summary.
C5_Witness ==
    /\ Finished
    /\ cache = MockCache
    /\ call.cached = MockReturnValue
    /\ call.summary = MockReturnValue

OtherVersions == (InitialPromptVersion..MaxPromptVersion) \ {promptVersion}

\* C6: the content hash of the lookup and of the store differs from the hash of
\* the same request under every other prompt version, and a deployment with a
\* changed prompt version never returns an entry stored under the old one: the
\* lookup misses and the request is generated again.
C6_PromptVersionSeparatesEntries ==
    /\ (cache.kind = "manager" /\ call.lookups = 1)
       => /\ call.hash = RequestHash(promptVersion, call, req)
          /\ \A v \in OtherVersions : RequestHash(v, call, req) # call.hash
    /\ (cache.kind = "manager" /\ call.writes = 1)
       => /\ call.stored_hash = RequestHash(promptVersion, call, req)
          /\ \A v \in OtherVersions : RequestHash(v, call, req) # call.stored_hash
    /\ (cache.kind = "manager" /\ call.lookups = 1
           /\ promptVersion # InitialPromptVersion)
       => /\ call.cached = NoneVal
          /\ call.route # "cache_hit"
          /\ Finished => Generating /\ call.log # <<>>

\* C6 witness: after the prompt version changed, a request whose entry under
\* the old version is still in a reachable cache has been generated again.
C6_Witness ==
    /\ Finished
    /\ RealCache
    /\ promptVersion > InitialPromptVersion
    /\ call.lookup_conn = "ok"
    /\ SummaryKey(RequestHash(InitialPromptVersion, call, req)) \in DOMAIN store
    /\ Truthy(store[SummaryKey(RequestHash(InitialPromptVersion, call, req))])
    /\ Generating
    /\ call.writes = 1

Absent == [exc |-> "none", val |-> NoneVal]

NotStored == [exc |-> "none", ok |-> FALSE, store |-> store]

\* C7: when the backing store is unreachable, at construction or at a later
\* call, get_cached_summary returns None and cache_summary returns False and
\* leaves the store as it is, neither raises, and the call goes through
\* generation and returns a summary as on a miss.
C7_UnreachableCacheIsAMiss ==
    /\ \A conn \in Conns \ {"ok"} :
          /\ GetCachedSummary("client", store, call.hash, conn) = Absent
          /\ CacheSummary("client", store, call.hash, call.summary, conn) = NotStored
    /\ \A ping \in Pings \ {"ok"} :
          /\ GetCachedSummary(WireCache(ping).redis, store, call.hash, "ok") = Absent
          /\ CacheSummary(WireCache(ping).redis, store, call.hash, call.summary, "ok")
               = NotStored
    /\ (cache.kind = "manager" /\ call.lookups = 1
           /\ (cache.redis = "none" \/ call.lookup_conn # "ok"))
       => /\ call.cached = NoneVal
          /\ pc # "raised"
          /\ Generating
          /\ Finished => call.summary.type = "dict" /\ call.log # <<>>
    /\ (cache.kind = "manager" /\ call.writes = 1
           /\ (cache.redis = "none" \/ call.store_conn # "ok"))
       => /\ ~call.store_ok
          /\ Finished

\* C7 witness: an entry exists, the connection fails at the lookup and at the
\* store, and the call has returned a generated summary.
C7_Witness ==
    /\ Finished
    /\ RealCache
    /\ call.lookup_conn = "ConnectionError"
    /\ call.store_conn = "ConnectionError"
    /\ SummaryKey(call.hash) \in DOMAIN store
    /\ Truthy(store[SummaryKey(call.hash)])
    /\ call.summary.origin = "model"

\* C8: when the lookup returns a string, the call returns the fallback
\* structure whose one full_summary section holds that string, calls no
\* backend, writes nothing and leaves the entry as it was.
C8_LegacyStringBecomesFallback ==
    (call.lookups >= 1 /\ call.cached.type = "str")
    => /\ Finished
       /\ call.route = "cache_hit"
       /\ call.summary.type = "dict"
       /\ call.summary = GetFallbackSummary(call.transcript, req.title, call.cached)
       /\ call.summary.section_ids = <<1>>
       /\ call.summary.content.kind = "legacy"
       /\ call.summary.content.legacy = call.cached.text
       /\ call.log = <<>>
       /\ call.writes = 0
       /\ ~expired => /\ SummaryKey(call.hash) \in DOMAIN store
                      /\ store[SummaryKey(call.hash)] = call.cached

\* C8 witness: a call has returned on a legacy string entry.
C8_Witness ==
    /\ Finished
    /\ RealCache
    /\ call.cached = StrVal("old text summary")
    /\ call.summary.content.legacy = "old text summary"
    /\ ~expired

\* C9: a transcript that is empty or only whitespace makes the call raise
\* ValueError before any cache lookup, cache write or backend call.
C9_BlankTranscriptRaisesFirst ==
    ~HasWords(req.transcript)
    => /\ pc \in {"idle", "raised"}
       /\ pc = "raised" => call.error = "ValueError" /\ call.msg = "empty transcript"
       /\ call.lookups = 0
       /\ call.writes = 0
       /\ call.log = <<>>
       /\ call.route = "none"

\* C9 witness: a whitespace-only transcript has raised, with a reachable cache
\* holding nothing.
C9_Witness ==
    /\ pc = "raised"
    /\ req.transcript.pad > 0
    /\ ~HasWords(req.transcript)
    /\ call.error = "ValueError"
    /\ cache.kind # "none"

\* C10: without raw segments, a default-range request does not raise and an
\* explicit non-default range request raises ValueError instead of going on
\* with the full transcript.
C10_ExplicitRangeNeedsSegments ==
    (req.raw_segments = <<>> /\ HasWords(req.transcript))
    => /\ DefaultRange(req) => pc # "raised"
       /\ ~DefaultRange(req) => pc \in {"idle", "raised"}

\* the request is one that generate_comprehensive_summary slices
Slicing == req.raw_segments # <<>> /\ ~DefaultRange(req) /\ HasWords(req.transcript)

WindowErrors == {"start negative", "end exceeds duration", "start not before end", "too short"}

\* the message the rules demand for the window [s, e] of a video of d seconds
FirstRuleViolated(s, e, d) ==
    IF s < 0 THEN "start negative"
    ELSE IF e > d THEN "end exceeds duration"
    ELSE IF s >= e THEN "start not before end"
    ELSE IF e - s < 60 THEN "too short"
    ELSE ""

RequestedEnd(e, d) == IF e = 0 - 1 THEN d ELSE e

\* the message the rules demand for the window of the request
RequestVerdict ==
    FirstRuleViolated(ParseTimestamp(req.start_time).val,
                      RequestedEnd(ParseTimestamp(req.end_time).val,
                                   req.raw_segments[Len(req.raw_segments)].end),
                      req.raw_segments[Len(req.raw_segments)].end)

\* C11: a sliced request whose window breaks a rule raises ValueError with the
\* message of the first rule broken, in the order start < 0, end > duration,
\* start >= end, end - start < 60; a window that breaks none is not rejected;
\* and a call that raised has made no cache lookup, no cache write and no
\* backend call.
C11_WindowRulesInOrder ==
    /\ (Slicing /\ pc # "idle")
       => /\ RequestVerdict # "" => /\ pc = "raised"
                                    /\ call.error = "ValueError"
                                    /\ call.msg = RequestVerdict
          /\ RequestVerdict = "" => /\ pc # "raised"
                                    /\ call.msg \notin WindowErrors
    /\ pc = "raised" => /\ call.lookups = 0
                        /\ call.writes = 0
                        /\ call.log = <<>>
                        /\ call.hash = <<>>

\* C11 witness: a window that starts below zero and ends beyond the video has
\* been rejected for its start.
C11_Witness ==
    /\ pc = "raised"
    /\ Slicing
    /\ req.start_time = TMinus100
    /\ req.end_time = T10530
    /\ call.msg = "start negative"
    /\ RealCache

\* the indices of the segments whose interval meets [s, e]
Overlapping(segs, s, e) ==
    {i \in 1..Len(segs) : segs[i].end >= s /\ segs[i].start <= e}

\* the texts of the segments with an index in idx, from segment i on
RECURSIVE PickTexts(_, _, _)
PickTexts(segs, idx, i) ==
    IF i > Len(segs) THEN <<>>
    ELSE (IF i \in idx THEN <<segs[i].text>> ELSE <<>>) \o PickTexts(segs, idx, i + 1)

\* the texts the overlap rule selects for the window of the request
RequestedTexts ==
    PickTexts(req.raw_segments,
              Overlapping(req.raw_segments, ParseTimestamp(req.start_time).val,
                          RequestedEnd(ParseTimestamp(req.end_time).val,
                                       req.raw_segments[Len(req.raw_segments)].end)),
              1)

\* C12: for a window that passes validation the call goes on with the texts,
\* joined by spaces in segment order, of exactly the segments that overlap the
\* window, both bounds inclusive.
C12_SliceIsTheOverlappingSegments ==
    (Slicing /\ pc # "idle" /\ RequestVerdict = "")
    => /\ RequestedTexts # <<>>
       /\ SliceTranscript(req.raw_segments, req.start_time, req.end_time).exc = "none"
       /\ SliceTranscript(req.raw_segments, req.start_time, req.end_time).text
            = JoinWords(JoinTexts(RequestedTexts))
       /\ call.transcript = JoinWords(JoinTexts(RequestedTexts))

\* C12 witness: the window 01:30-end leaves out the first segment, which ends
\* before it, and keeps the other two.
C12_Witness ==
    /\ Finished
    /\ Slicing
    /\ req.start_time = T0130
    /\ req.end_time = TEnd
    /\ call.transcript = Text(0, <<Run("b", 1), Run("a", 3)>>)

\* the positions of the colons of a timestamp string
Colons(ts) == {i \in 1..Len(ts) : ts[i] = ":"}

\* 10 to the power n
RECURSIVE Pow10(_)
Pow10(n) == IF n = 0 THEN 1 ELSE 10 * Pow10(n - 1)

\* the number a string of decimal digits writes
RECURSIVE Decimal(_)
Decimal(ds) ==
    IF ds = <<>> THEN 0
    ELSE DigitVal(Head(ds)) * Pow10(Len(ds) - 1) + Decimal(Tail(ds))

Unsigned(part) == part # <<>> /\ \A i \in 1..Len(part) : part[i] \in Digits

\* the part writes an integer: digits after an optional sign
IsInteger(part) ==
    \/ Unsigned(part)
    \/ part # <<>> /\ Head(part) \in {"-", "+"} /\ Unsigned(Tail(part))

IntegerOf(part) ==
    IF Unsigned(part) THEN Decimal(part)
    ELSE IF Head(part) = "-" THEN 0 - Decimal(Tail(part))
    ELSE Decimal(Tail(part))

\* the fields of a timestamp string with one colon at c, or two at c and d
Field1(ts, c) == SubSeq(ts, 1, c - 1)
Field2(ts, c, d) == SubSeq(ts, c + 1, d - 1)

Min(S) == CHOOSE x \in S : \A y \in S : x <= y
Max(S) == CHOOSE x \in S : \A y \in S : x >= y

IsEndWord(ts) ==
    /\ Len(ts) = 3
    /\ ts[1] \in {"e", "E"} /\ ts[2] \in {"n", "N"} /\ ts[3] \in {"d", "D"}

\* what the parsing rules demand of the string: a number of seconds, the
\* sentinel for "end", or an error
Demanded(ts) ==
    IF IsEndWord(ts) THEN [exc |-> "none", val |-> 0 - 1]
    ELSE IF Cardinality(Colons(ts)) = 1
              /\ IsInteger(Field1(ts, Min(Colons(ts))))
              /\ IsInteger(Field2(ts, Min(Colons(ts)), Len(ts) + 1))
    THEN [exc |-> "none",
          val |-> 60 * IntegerOf(Field1(ts, Min(Colons(ts))))
                  + IntegerOf(Field2(ts, Min(Colons(ts)), Len(ts) + 1))]
    ELSE IF Cardinality(Colons(ts)) = 2
              /\ IsInteger(Field1(ts, Min(Colons(ts))))
              /\ IsInteger(Field2(ts, Min(Colons(ts)), Max(Colons(ts))))
              /\ IsInteger(Field2(ts, Max(Colons(ts)), Len(ts) + 1))
    THEN [exc |-> "none",
          val |-> 3600 * IntegerOf(Field1(ts, Min(Colons(ts))))
                  + 60 * IntegerOf(Field2(ts, Min(Colons(ts)), Max(Colons(ts))))
                  + IntegerOf(Field2(ts, Max(Colons(ts)), Len(ts) + 1))]
    ELSE [exc |-> "ValueError", val |-> 0]

\* C13: _parse_timestamp returns 60*M + S for M:S and 3600*H + 60*M + S for
\* H:M:S (90 for "01:30", 3930 for "1:05:30"), returns for "end" the sentinel
\* that _slice_transcript replaces by the end of the last segment, and raises
\* ValueError for any other number of parts and for a part that is no integer.
C13_ParseTimestampRules ==
    probe.at \in {"returned", "resolved"}
    => /\ probe.exc = Demanded(probe.arg).exc
       /\ probe.val = Demanded(probe.arg).val
       /\ probe.arg = T0130 => probe.exc = "none" /\ probe.val = 90
       /\ probe.arg = T10530 => probe.exc = "none" /\ probe.val = 3930
       /\ Cardinality(Colons(probe.arg)) \notin {1, 2} /\ ~IsEndWord(probe.arg)
            => probe.exc = "ValueError"
       /\ (probe.at = "resolved" /\ IsEndWord(probe.arg))
            => probe.end_seconds = SegmentsA[Len(SegmentsA)].end
       /\ (probe.at = "resolved" /\ probe.val >= 0)
            => probe.end_seconds = probe.val

\* C13 witness: "1:05:30" has been parsed.
C13_Witness ==
    /\ probe.at = "resolved"
    /\ probe.arg = T10530
    /\ probe.val = 3930
    /\ probe.end_seconds = 3930

\* the words a transcript needs to have more than to be chunked in a mode
ChunkingWords(mode) == ModeConfigs[mode].chunking_threshold * 150

\* C14: on a miss the transcript is chunked if and only if its word count
\* divided by 150 is strictly greater than the chunking threshold of the mode;
\* a call takes one route only; and every transcript with at least as many
\* words as a chunked one is chunked too.
C14_ChunkedIffOverThreshold ==
    /\ Generating
       => /\ call.route = "chunked" <=> WordCount(call.transcript) > ChunkingWords(call.mode)
          /\ call.route = "chunked"
             => /\ call.chunks # <<>>
                /\ pc \in {"chunking", "cache_store", "done"}
                /\ \A i \in 1..Len(call.log) :
                     call.log[i] = IF i <= Len(call.chunks) THEN <<"chunk", i>>
                                   ELSE <<"structured", 0>>
          /\ call.route = "single"
             => /\ call.chunks = <<>> /\ call.digests = <<>>
                /\ pc \in {"single_pass", "cache_store", "done"}
                /\ call.log \in {<<>>, <<<<"structured", 0>>>>}
          /\ call.route = "chunked"
             => \A t \in Transcripts :
                  WordCount(t) >= WordCount(call.transcript)
                  => SelectStrategy(t, ModeConfigs[call.mode]) = "chunked"

\* C14 witness: a transcript of exactly 420 * 150 words has gone through the
\* single pass.
C14_Witness ==
    /\ Finished
    /\ call.route = "single"
    /\ WordCount(call.transcript) = 63000
    /\ call.log = <<<<"structured", 0>>>>

\* both threads are at the position p
Both(p) == pc = p /\ peer.pc = p

\* C15: no lock separates the cache check from the cache store: two calls with
\* the same fingerprint can both have missed and generated before either
\* stores, and whatever the interleaving neither raises, the thread that runs
\* can always take its next step until it has returned, each call makes one
\* lookup and one store at most, and a call that returns returns a summary.
C15_ConcurrentCallsBothComplete ==
    /\ pc # "raised" /\ peer.pc # "raised"
    /\ pc # "done" => ENABLED ThreadStep
    /\ call.lookups <= 1 /\ call.writes <= 1
    /\ Len(call.log) <= Len(call.chunks) + 1
    /\ pc = "done" => call.summary.type = "dict"
    /\ peer.pc = "done" => peer.call.summary.type = "dict"

\* C15 witness: with an empty cache both calls have missed and each has a
\* summary of its own from the backend; neither has stored yet.
C15_Witness ==
    /\ store = EmptyStore
    /\ Both("cache_store")
    /\ call.cached = NoneVal /\ peer.call.cached = NoneVal
    /\ call.lookup_conn = "ok" /\ peer.call.lookup_conn = "ok"
    /\ call.log # <<>> /\ peer.call.log # <<>>
    /\ call.summary.origin = "model" /\ peer.call.summary.origin = "model"
    /\ call.summary # peer.call.summary

SameSelection(r, p) ==
    /\ r.mode = req.mode /\ r.tone = req.tone /\ r.title = req.title
    /\ r.transcript = req.transcript /\ r.raw_segments = req.raw_segments
    /\ PrepareRequest(r).exc = "none"
    /\ PrepareRequest(r).transcript = p.transcript

\* C17: every request with the mode, tone and title of the one that has been
\* looked up, whose time range selects the same text, has the fingerprint of
\* that lookup.
C17_SameSelectionSameFingerprint ==
    (call.lookups = 1 /\ pc # "raised")
    => \A r \in RangeRequests :
         SameSelection(r, call) => RequestHash(promptVersion, PrepareRequest(r), r) = call.hash

\* C18: the quick takeaway of every summary a call returns, the fallback
\* built from the title included, has at most 150 characters.
C18_TakeawayWithin150Chars ==
    Finished => Len(call.summary.takeaway[1]) + Len(call.summary.takeaway[2]) <= 150

\* C19: once invalidate_video_cache has returned True for the video, neither
\* its transcript entry nor the summary entry under the fingerprint of its
\* transcript is in the cache.
C19_InvalidationRemovesEveryEntry ==
    video.invalidated = "True"
    => /\ TranscriptKey(VideoId) \notin DOMAIN store
       /\ SummaryKey(RequestHash(promptVersion, PrepareRequest(req), req))
            \notin DOMAIN store

\* C20: when the process-video request has returned, the status of the row is
\* 'completed' or 'failed'; it is 'failed' exactly when the request ended with
\* an error; a completed row holds the extracted title, a transcript that is
\* not blank and the summary that the call of generate_comprehensive_summary
\* on that transcript returned; and the status is 'processing' only while a
\* request works on the row.
C20_StatusSettledOnReturn ==
    /\ video.phase = "returned"
       => /\ video.status \in {"completed", "failed"}
          /\ video.status = "failed"
             <=> video.response \in {"TranscriptExtractionError", "AIProcessingError"}
    /\ video.status = "processing" <=> video.phase \in {"extracting", "summarizing"}
    /\ video.status = "completed"
       => /\ video.title = req.title
          /\ ~TranscriptIsBlank(video.transcript)
          /\ video.transcript = call.transcript
          /\ call.error = "none"
          /\ call.summary.type = "dict"
          /\ video.summary = call.summary

\* C20 witness: the transcript was extracted, the summarizer raised, and the
\* request has returned with the row marked failed.
C20_Witness ==
    /\ video.phase = "returned"
    /\ video.status = "failed"
    /\ video.response = "AIProcessingError"
    /\ video.patched
    /\ video.transcript = req.transcript
    /\ TranscriptKey(VideoId) \in DOMAIN store

\* C21: a step taken while the row is completed leaves its status, title,
\* transcript and summary as they are and starts neither the extraction nor a
\* call of the summarizer; a request that finds the row failed sets it to
\* 'processing' and goes on to the extraction with a fresh summarizer call.
C21_CompletedRowIsReturnedAsStored ==
    [][/\ video.status = "completed"
          => /\ video'.status = "completed"
             /\ video'.title = video.title
             /\ video'.transcript = video.transcript
             /\ video'.summary = video.summary
             /\ video'.phase = "returned"
             /\ pc' = pc /\ call' = call
       /\ (video.status = "failed" /\ video'.phase # video.phase)
          => /\ video'.status = "processing"
             /\ video'.phase = "extracting"
             /\ call' = IdleCall]_vars

\* C21 witness: a later request has found the completed row and returned it.
C21_Witness ==
    /\ video.status = "completed"
    /\ video.phase = "returned"
    /\ video.response = "existing"
    /\ video.summary = call.summary

\* the response is one the claim lets through: it parses as a JSON object that
\* has every field of the mode, with key_points and full_summary as lists
WellFormed(outcome, mode) ==
    /\ outcome.kind = "text"
    /\ outcome.raw.json
    /\ outcome.raw.top = "object"
    /\ \A k \in BaseKeys \cup (IF mode = "indepth" THEN IndepthKeys ELSE {}) :
         k \in outcome.raw.keys
    /\ outcome.raw.key_points = "list"
    /\ outcome.raw.full_summary = "list"

AsClaimed(outcome, mode, result, fallback) ==
    /\ result.exc = "none"
    /\ result.val = IF WellFormed(outcome, mode) THEN ParsedSummary(outcome.raw)
                    ELSE fallback

\* C22: for a call about to make its single pass, every response the backend
\* can give is returned as parsed exactly when it is a JSON object with every
\* field of the mode and with key_points and full_summary as lists, and gives
\* the fallback structure, without an exception, in every other case; a call
\* that has made its single pass holds one or the other.
C22_ValidatorReturnsParsedOrFallback ==
    /\ pc = "single_pass"
       => \A outcome \in StructuredOutcomes :
            AsClaimed(outcome, call.mode,
                      SummarizeSinglePass(gemini, outcome, call.transcript, req.title,
                                          call.mode),
                      GetFallbackSummary(call.transcript, req.title, NoneVal))
    /\ (call.route = "single" /\ pc \in {"cache_store", "done"})
       => \/ /\ call.summary.origin = "model"
             /\ RequiredFields(call.mode) \subseteq call.summary.keys
             /\ call.summary.key_points = "list"
             /\ call.summary.full_summary = "list"
          \/ call.summary = GetFallbackSummary(call.transcript, req.title, NoneVal)
    /\ (call.route = "single" /\ pc = "raised") => call.writes = 1

\* C22 witness: an in-depth call has made its single pass and holds the parsed
\* object with all eight fields.
C22_Witness ==
    /\ call.route = "single"
    /\ pc \in {"cache_store", "done"}
    /\ call.mode = "indepth"
    /\ call.summary.origin = "model"
    /\ call.summary.keys = AllKeys
    /\ call.log = <<<<"structured", 0>>>>

\* C23: a degraded result has one section, with id 1, which its one topic
\* refers to; the section holds the legacy text when the call is migrating
\* one, and otherwise the first 300 words of the transcript of the request,
\* on the chunked route too.
C23_FallbackHoldsRequestTranscript ==
    (pc \in {"cache_store", "done"} /\ call.summary.origin = "fallback")
    => /\ call.summary.section_ids = <<1>>
       /\ call.summary.topic_refs = <<1>>
       /\ IF call.route = "cache_hit"
          THEN /\ call.summary.content.kind = "legacy"
               /\ call.summary.content.legacy = call.cached.text
          ELSE /\ call.summary.content.kind = "transcript"
               /\ call.summary.content.text
                    = JoinWords(TakeWords(SplitWords(call.transcript), FallbackWords))

\* C24: the chunks of a transcript of n >= 1 words for a chunk size s >= 1 are
\* ceil(n/s) in number, each but the last has s words, the last has between 1
\* and s, and their words put together in order are the words of the
\* transcript.
C24_SplitPartitionsTheWords ==
    (probe.op = "split_transcript" /\ probe.at = "returned")
    => /\ Len(probe.chunks)
            = (WordCount(probe.arg) + probe.chunk_size - 1) \div probe.chunk_size
       /\ \A i \in 1..(Len(probe.chunks) - 1) :
            WordCount(probe.chunks[i]) = probe.chunk_size
       /\ WordCount(probe.chunks[Len(probe.chunks)]) \in 1..probe.chunk_size
       /\ JoinTexts(probe.chunks) = SplitWords(probe.arg)
       /\ \A i \in 1..Len(probe.chunks) : probe.chunks[i].pad = 0

\* C24 witness: seven words in three runs were split into chunks of three: two
\* full chunks whose borders fall inside runs, and a last chunk of one word.
C24_Witness ==
    /\ probe.op = "split_transcript"
    /\ probe.at = "returned"
    /\ probe.arg = Text(0, <<Run("a", 2), Run("b", 3), Run("a", 2)>>)
    /\ probe.chunk_size = 3
    /\ probe.chunks = <<Text(0, <<Run("a", 2), Run("b", 1)>>),
                        Text(0, <<Run("b", 2), Run("a", 1)>>),
                        Text(0, <<Run("a", 1)>>)>>

\* the words of the first 500 characters of a chunk of one-character words
\* that is longer than that
FirstChars(chunk) == TakeWords(SplitWords(chunk), ExcerptChars \div 2)

\* C25 as stated: on the chunked route a digest that is not a reply of the
\* backend is the first 500 characters of its chunk.
C25_FailedDigestIsFirst500Chars ==
    call.route = "chunked"
    => \A i \in 1..Len(call.digests) :
         call.digests[i] \notin Digests
         => call.digests[i].runs = FirstChars(call.chunks[i])

\* C25 as amended: on the chunked route there is never more than one digest
\* per chunk, in chunk order; a digest is a reply of the backend or the first
\* 500 characters of its chunk followed by "..."; while chunks remain the next
\* one can be condensed, and the final call can be made when none remains; the
\* final call has been made only with one digest for every chunk; and the
\* call raises only from the cache store.
C25_FailedChunkGetsExcerpt ==
    call.route = "chunked"
    => /\ Len(call.digests) <= Len(call.chunks)
       /\ \A i \in 1..Len(call.digests) :
            \/ call.digests[i] \in Digests
            \/ call.digests[i].runs
                 = AppendRuns(FirstChars(call.chunks[i]), <<Run("...", 1)>>)
       /\ \A i \in 1..Len(call.digests) : call.log[i] = <<"chunk", i>>
       /\ pc = "chunking" => ENABLED (ChunkStep \/ MetaPass)
       /\ pc \in {"cache_store", "done"} => Len(call.digests) = Len(call.chunks)
       /\ pc = "raised" => call.writes = 1

\* C25 witness: with the backend available the first chunk failed and got its
\* excerpt, the second was condensed after it, and the final call was made.
C25_Witness ==
    /\ call.route = "chunked"
    /\ gemini
    /\ pc \in {"cache_store", "done"}
    /\ Len(call.digests) = 2
    /\ call.digests[1].runs = <<Run("a", ExcerptChars \div 2), Run("...", 1)>>
    /\ call.digests[2] \in Digests

\* the generation of the call is over
Summarized == pc \in {"cache_store", "done", "raised"} /\ Generating

\* C26: the log of backend calls of a request is empty before the route is
\* taken and on a cache hit; on the single-pass route it is one structured
\* call, once the pass is made; on the chunked route with N chunks it is the
\* condensation calls of chunks 1, 2, ... in that order, as many as there are
\* digests, followed, once all N digests are there, by one structured call,
\* N + 1 calls at most; and a degraded result of that last call holds the
\* start of the meta-transcript, the text the call was made on.
C26_BackendCallSequence ==
    /\ ~Generating => call.log = <<>>
    /\ call.route = "single"
       => call.log = IF Summarized THEN <<<<"structured", 0>>>> ELSE <<>>
    /\ call.route = "chunked"
       => /\ Len(call.log) = Len(call.digests) + (IF Summarized THEN 1 ELSE 0)
          /\ Len(call.log) <= Len(call.chunks) + 1
          /\ \A i \in 1..Len(call.digests) : call.log[i] = <<"chunk", i>>
          /\ Summarized
             => /\ Len(call.digests) = Len(call.chunks)
                /\ call.log[Len(call.log)] = <<"structured", 0>>
                /\ (pc # "raised" /\ call.summary.origin = "fallback")
                   => call.summary.content.text
                        = JoinWords(TakeWords(SplitWords(MetaTranscript(call.digests)),
                                              FallbackWords))

\* C26 witness: a request of two chunks has made its three calls.
C26_Witness ==
    /\ call.route = "chunked"
    /\ pc = "done"
    /\ Len(call.chunks) = 2
    /\ call.log = <<<<"chunk", 1>>, <<"chunk", 2>>, <<"structured", 0>>>>
    /\ call.summary.origin = "model"

\* C27: _slice_transcript on the segments of any extraction method returns or
\* raises the input error ValueError, never another error.
C27_ExtractedSegmentsSliceOrInputError ==
    (probe.op = "slice_extracted" /\ probe.at = "returned")
    => probe.exc \in {"none", "ValueError"}

\* an end timestamp written with digits whose value is below zero
NegativeDigits(ts) ==
    /\ ~IsEndWord(ts)
    /\ Demanded(ts).exc = "none"
    /\ Demanded(ts).val < 0

\* C29: _slice_transcript resolves only the literal "end" (in any letter case)
\* to the end of the last segment; an end timestamp written with digits that
\* parses to a negative number of seconds, "0:-1" and "-1:59" included, is
\* rejected with a ValueError and is never taken for the end of the video.
C29_NegativeEndIsRejected ==
    (probe.op = "slice_end" /\ probe.at = "returned" /\ NegativeDigits(probe.end_time))
    => probe.exc = "ValueError"

\* C28: the content string of the cache key is injective in the request: two
\* requests that differ in mode, tone, start_time, end_time, transcript or
\* title never give the same string under one prompt version, also when text
\* with '_' moves between transcript and title ("a_b" with "c", "a" with "b_c").
C28_ContentStringIsInjective ==
    (probe.op = "cache_key" /\ probe.at = "returned" /\ probe.first # probe.second)
    => probe.contents[1] # probe.contents[2]

\* C30: after any sequence of start_processing, update_stage,
\* complete_processing, fail_processing and cleanup calls for a video, the
\* progress update reported for it carries an error only if its stage is
\* 'failed'; an update with stage 'completed' and progress 100 never carries
\* the error of an earlier failure.
C30_ErrorOnlyWhenFailed ==
    (probe.op = "progress_tracker" /\ probe.update.reported
        /\ probe.update.error # "none")
    => probe.update.stage = "failed"

====
